---- MODULE Spec2Model ----
(***************************************************************************)
(* Onion relay core of schedule-4-real: circuit registry (circuits.cjs),   *)
(* rendezvous pairing (rendezvous.cjs), packet dispatcher and key rotation *)
(* (relay.cjs), and the client side of the handshake (room-publisher.cjs). *)
(*                                                                         *)
(* Circuit objects live in a heap: a jitter timer keeps a reference to the *)
(* circuit object it was created for, also after the registry dropped it.  *)
(* Every handshake arrives on a WebSocket of its own, as those of          *)
(* TrackerCircuit.build do: a circuit's inboundWs field holds the          *)
(* readyState of that socket, and the socket is named by the circuit       *)
(* object.  A packet of an established circuit may arrive on any socket.   *)
(* Time is kept as ages: "timestamp: Date.now()" is age 0, a tick makes    *)
(* everything one tick older, "now - timestamp > ttl" is "age > ttl".      *)
(***************************************************************************)
EXTENDS Integers, Sequences, FiniteSets, TLC

VARIABLES
  circuits,          \* circuits.cjs: Map circuitId -> circuit object (0: no entry)
  heap,              \* the circuit objects created by registerCircuit
  pendingRendezvous, \* rendezvous.cjs: Map cookieHex -> {circuitId, timestamp}
  timers,            \* relay.cjs handlePacket: pending setTimeout(processMessage) closures
  hops,              \* relay.cjs forwardToHop: the per-circuit next-hop WebSockets
  relayKeypair,      \* relay.cjs: current key-exchange keypair
  previousKeypair,   \* relay.cjs: keypair before the last rotation, or null
  zeroedSk,          \* keypairs whose secretKey buffer was filled with 0
  nextKey,           \* the keypair the next generateKxKeypair() yields
  zeroTimers,        \* rotateKeys: remaining ticks of every pending setTimeout(.., 120000)
  rotationInterval,  \* cfg.keyRotationIntervalMs, in ticks
  rotationDue,       \* ticks until the key rotation setInterval fires next
  cleanupDue,        \* ticks until the cleanup setInterval fires next
  retired,           \* history: ticks since a keypair stopped being current
  rooms,             \* tracker.cjs: Map roomId -> room, in insertion order
  circuitSessions,   \* tracker.cjs: Map roomId -> {ws, circuitId}
  federatedRooms,    \* tracker.cjs: Map roomId -> federated room, in insertion order
  dbPending,         \* tracker.cjs configure: the loadRooms() promise is not settled yet
  resp,              \* the tracker response / HTTP result of the last step
  peers,             \* the room tables of the peer trackers gossip.cjs fetches from
  cursor,            \* a QUERY client: the cursor of its next QUERY
  count,             \* a QUERY client: its page size
  pages,             \* a QUERY client: the entries of the pages it got, in order
  done,              \* a QUERY client: it got a page with fewer than count entries
  knownPeers,        \* gossip.cjs: Map url -> peer
  gnow,              \* gossip.cjs: Date.now(), in ticks
  gev,               \* gossip: the last step, its input and its HTTP status
  hostTunnels,       \* tunnel-proxy.cjs: Map roomKey -> tunnel (0: no entry)
  tunnels,           \* the tunnel objects registerHost created, one per host socket
  guestSessions,     \* tunnel-proxy.cjs sessions: Map sessionId -> {roomKey, createdAt}
  responses,         \* the guest-facing res objects handed to proxyHttpRequest
  guests,            \* the guest WebSockets handed to proxyWebSocket
  tev,               \* tunnel: the last step, its input and what it sent
  buckets,           \* rate-limit.cjs: Map ip -> {timestamps, blocked}
  lnow,              \* rate-limit.cjs: Date.now(), in ticks
  allowed,           \* history: per origin, the call times of check() that returned true
  called,            \* history: per origin, the time of its most recent check() (0: none)
  lev,               \* rate limiter: the last call of check(), its origin and its result
  chaffSockets,      \* chaff.cjs: the WebSockets connect() created, in order
  chaffConnections,  \* chaff.cjs: Map url -> ws (0: no entry)
  chaffIntervals,    \* chaff.cjs: the URLs of the running send intervals
  reconnectTimers,   \* chaff.cjs: per URL, the pending setTimeout(connect, 5000)
  out,               \* the sendToCircuit / ws.send calls of the last step
  ev                 \* the last step: operation, arguments, result

vars == <<circuits, heap, pendingRendezvous, timers, hops, relayKeypair,
          previousKeypair, zeroedSk, nextKey, zeroTimers, rotationInterval,
          rotationDue, cleanupDue, retired, rooms, circuitSessions,
          federatedRooms, dbPending, resp, peers, cursor, count, pages, done,
          knownPeers, gnow, gev,
          hostTunnels, tunnels, guestSessions, responses, guests, tev,
          buckets, lnow, allowed, called, lev,
          chaffSockets, chaffConnections, chaffIntervals, reconnectTimers,
          out, ev>>

(***************************************************************************)
(* Bounds of the model.                                                    *)
(***************************************************************************)
MaxCircuitId == 2      \* circuit ids 0..MaxCircuitId stand for the 32-bit ids
MaxObj       == 2      \* circuit objects reachable at once
MaxTimers    == 2      \* messages whose jitter delay is outstanding at once
MaxKeys      == 3      \* keypairs generated in one run
MaxHops      == 1      \* next-hop sockets at once
MaxAge       == 9      \* ages saturate here
MaxFederated == 2      \* federated rooms a tracker starts with
MaxCount     == 3      \* rooms asked for in one QUERY
MaxList      == 2      \* rooms in the list a peer answers
MaxRoomAge   == 3      \* the age of a room (createdAt) saturates here
MaxNow       == 5      \* the gossip clock stops here
MaxFailures  == 4      \* failure counts stop here
MaxConn      == 2      \* host control connections in one run
MaxReqId     == 3      \* request / channel ids one tunnel hands out
MaxRes       == 2      \* guest HTTP requests in one run
MaxGuests    == 1      \* guest WebSockets in one run
MaxSessions  == 2      \* guest sessions in one run
MaxSockets   == 4      \* chaff WebSockets created in one run
MaxClock     == 9      \* the rate limiter's clock stops here

(***************************************************************************)
(* Program constants; times are in ticks of 15 s.                          *)
(***************************************************************************)
MAX_PENDING     == 2   \* rendezvous.cjs MAX_PENDING (10000), scaled to the model
COOKIE_TTL_MS   == 2   \* rendezvous.cjs COOKIE_TTL_MS = 30000
CLEANUP_PERIOD  == 2   \* relay-server.cjs: setInterval(cleanup, 30000)
GRACE_MS        == 8   \* relay.cjs rotateKeys: setTimeout(.., 120000)
COOKIE_BYTES    == 20  \* rendezvous.cjs: cookie.length !== 20
maxCircuits     == 2   \* circuits.cjs maxCircuits (10000), scaled to the model
sessionTtl      == 3   \* circuits.cjs sessionTtl (300000), scaled to the model
roomTtlMs       == 2   \* tracker.cjs roomTtlMs (120000), scaled to the model
maxRooms        == 2   \* tracker.cjs maxRooms (50000), scaled to the model
QUERY_MAX       == 100 \* tracker.cjs handleQuery: if (count > 100) count = 100
MAX_FAILURES    == 3   \* gossip.cjs MAX_FAILURES
ACTIVE_WINDOW_MS == 3  \* gossip.cjs ACTIVE_WINDOW_MS (24 h), scaled to the model
MAX_PEERS       == 4   \* gossip.cjs MAX_PEERS (500), scaled to the model
ANNOUNCE_MAX_AGE_MS    == 2   \* gossip.cjs (10 min), scaled to the model
ANNOUNCE_MAX_FUTURE_MS == 1   \* gossip.cjs (1 min), scaled to the model
URL_MAX         == 256 \* gossip.cjs verifyAnnouncement: a.url.length > 256
MERGE_MAX       == 200 \* gossip.cjs mergePeers: remotePeers.slice(0, 200)
SESSION_TTL     == 2   \* tunnel-proxy.cjs SESSION_TTL (24 h), scaled to the model
HTTP_TIMEOUT    == 1   \* tunnel-proxy.cjs HTTP_TIMEOUT (30 s), in ticks of 30 s
CHUNK_TIMEOUT   == 4   \* tunnel-proxy.cjs: setTimeout(.., 120_000), in ticks of 30 s
maxRequests     == 2   \* rate-limit.cjs createRateLimiter(maxRequests, ..), scaled
windowMs        == 2   \* rate-limit.cjs createRateLimiter(.., windowMs), in ticks of 30 s
MAX_TRACKED_IPS == 2   \* rate-limit.cjs MAX_TRACKED_IPS (50000), scaled to the model
CHAFF_TAG       == 255 \* relay.cjs handlePacket: rawData[0] === 0xFF; chaff.cjs: packet[0] = 0xFF

Null   == "null"      \* null / undefined, of a string
NullId == -1          \* null / undefined, of a circuit id
NoWs   == 0           \* null, of a WebSocket
NoKey  == <<"none">>  \* no key buffer

CircuitIds == 0..MaxCircuitId
Objs       == 1..MaxObj

\* JavaScript truthiness of a circuit id or null: 0 and null are falsy
Truthy(x) == x # NullId /\ x # 0

Min(a, b) == IF a < b THEN a ELSE b

(***************************************************************************)
(* crypto.cjs.  A keypair is a number k: publicKey k, secretKey Sk(k).     *)
(* crypto_kx: both sides hash the shared point with both public keys; the  *)
(* server's tx is the client's rx and the server's rx the client's tx.     *)
(***************************************************************************)
Sk(pk) == <<"sk", pk>>

Shared(sk, pk) == {sk[2], pk}

serverSessionKeys(relayPk, relaySk, clientPk) ==
  [rx |-> <<"c2s", Shared(relaySk, clientPk), clientPk, relayPk>>,
   tx |-> <<"s2c", Shared(relaySk, clientPk), clientPk, relayPk>>]

clientSessionKeys(clientPk, clientSk, serverPk) ==
  [rx |-> <<"s2c", Shared(clientSk, serverPk), clientPk, serverPk>>,
   tx |-> <<"c2s", Shared(clientSk, serverPk), clientPk, serverPk>>]

ZeroKey == <<"zero">>

encrypt(plaintext, key, aad) == [pt |-> plaintext, key |-> key, aad |-> aad]

\* an inner frame: type(1) + nextHopLen(1) + nextHop + payloadLen(2) + payload;
\* the payload of the rendezvous messages is cookie + data
Frame(msgType, nextHop, cookie, data) ==
  [msgType |-> msgType, nextHop |-> nextHop, cookie |-> cookie, data |-> data]

NoFrame == Frame(Null, Null, Null, Null)   \* decrypt's null

decrypt(ct, key, aad) ==
  IF ct.key = key /\ ct.aad = aad THEN ct.pt ELSE NoFrame

(***************************************************************************)
(* circuits.cjs                                                            *)
(***************************************************************************)
NoCircuit ==
  [circuitId |-> NullId, rx |-> NoKey, tx |-> NoKey, inboundWs |-> Null,
   outboundWs |-> NoWs, lastActivity |-> 0, nextHop |-> Null,
   rendezvousPairId |-> NullId]

\* circuits.size
Size(cs) == Cardinality({i \in CircuitIds : cs[i] # 0})

\* the object a "new" allocates: the first unused one (0: the model's bound is used up)
Fresh(h) ==
  IF \E o \in Objs : h[o] = NoCircuit
  THEN CHOOSE o \in Objs : h[o] = NoCircuit /\ \A q \in Objs : q < o => h[q] # NoCircuit
  ELSE 0

\* registerCircuit with "circuits.size > maxCircuits"
registerCircuit_OneMore(h, cs, circuitId, rx, tx, inboundWs) ==
  IF Size(cs) > maxCircuits
  THEN [ok |-> FALSE, heap |-> h, circuits |-> cs]
  ELSE LET o == Fresh(h) IN
       [ok |-> TRUE,
        heap |-> [h EXCEPT ![o] =
                   [circuitId |-> circuitId, rx |-> rx, tx |-> tx,
                    inboundWs |-> inboundWs, outboundWs |-> NoWs,
                    lastActivity |-> 0, nextHop |-> Null,
                    rendezvousPairId |-> NullId]],
        circuits |-> [cs EXCEPT ![circuitId] = o]]

registerCircuit(h, cs, circuitId, rx, tx, inboundWs) ==
  IF Size(cs) >= maxCircuits
  THEN [ok |-> FALSE, heap |-> h, circuits |-> cs]
  ELSE LET o == Fresh(h) IN
       [ok |-> TRUE,
        heap |-> [h EXCEPT ![o] =
                   [circuitId |-> circuitId, rx |-> rx, tx |-> tx,
                    inboundWs |-> inboundWs, outboundWs |-> NoWs,
                    lastActivity |-> 0, nextHop |-> Null,
                    rendezvousPairId |-> NullId]],
        circuits |-> [cs EXCEPT ![circuitId] = o]]

\* getCircuit: the entry (0: undefined) and the heap with its lastActivity renewed
getCircuit(h, cs, circuitId) ==
  IF cs[circuitId] # 0
  THEN [circuit |-> cs[circuitId],
        heap |-> [h EXCEPT ![cs[circuitId]].lastActivity = 0]]
  ELSE [circuit |-> 0, heap |-> h]

\* destroyCircuit: outboundWs.close() when its readyState <= 1 (CONNECTING, OPEN)
CloseOutbound(hp, h, o) ==
  IF h[o].outboundWs # NoWs /\ hp[h[o].outboundWs].state \in {"connecting", "open"}
  THEN [hp EXCEPT ![h[o].outboundWs].state = "closing"]
  ELSE hp

RECURSIVE destroyCircuit(_, _, _, _)
destroyCircuit(h, cs, hp, circuitId) ==
  IF cs[circuitId] = 0
  THEN [heap |-> h, circuits |-> cs, hops |-> hp]
  ELSE LET o   == cs[circuitId]
           hp1 == CloseOutbound(hp, h, o)
           h1  == [h EXCEPT ![o].rx = ZeroKey, ![o].tx = ZeroKey]
           pid == h1[o].rendezvousPairId
       IN IF Truthy(pid) /\ cs[pid] # 0
          THEN LET pair == cs[pid]
                   h2   == [h1 EXCEPT ![pair].rendezvousPairId = NullId]
                   r    == destroyCircuit(h2, cs, hp1, h2[pair].circuitId)
               IN [heap |-> r.heap,
                   circuits |-> [r.circuits EXCEPT ![circuitId] = 0],
                   hops |-> r.hops]
          ELSE [heap |-> h1, circuits |-> [cs EXCEPT ![circuitId] = 0],
                hops |-> hp1]

\* cleanupExpired that destroys nothing
cleanupExpiredFrom_Keeps(h, cs, hp, ids) == [heap |-> h, circuits |-> cs, hops |-> hp]

\* cleanupExpired: destroyCircuit for every entry the loop finds expired, in Map order
RECURSIVE cleanupExpiredFrom(_, _, _, _)
cleanupExpiredFrom(h, cs, hp, ids) ==
  IF ids = <<>> THEN [heap |-> h, circuits |-> cs, hops |-> hp]
  ELSE LET id == Head(ids)
           r  == IF cs[id] # 0 /\ h[cs[id]].lastActivity > sessionTtl
                 THEN destroyCircuit(h, cs, hp, id)
                 ELSE [heap |-> h, circuits |-> cs, hops |-> hp]
       IN cleanupExpiredFrom(r.heap, r.circuits, r.hops, Tail(ids))

(***************************************************************************)
(* rendezvous.cjs                                                          *)
(***************************************************************************)
\* cookies a payload.subarray(0, 20) can be: 20 bytes long, or shorter
Cookies20    == {"c1", "c2", "c3"}
ShortCookies == {"s1"}
CookieInputs == Cookies20 \cup ShortCookies
CookieLength(cookie) == IF cookie \in Cookies20 THEN COOKIE_BYTES ELSE COOKIE_BYTES - 1

NoPending == [circuitId |-> NullId, timestamp |-> 0]
IsPending(pend, cookie) == cookie \in Cookies20 /\ pend[cookie] # NoPending
PendingSize(pend) == Cardinality({c \in Cookies20 : pend[c] # NoPending})

\* establishRendezvous without "if (pendingRendezvous.has(hex)) return false"
establishRendezvous_Overwrites(pend, circuitId, cookie) ==
  IF CookieLength(cookie) # COOKIE_BYTES THEN [success |-> FALSE, pending |-> pend]
  ELSE IF PendingSize(pend) >= MAX_PENDING THEN [success |-> FALSE, pending |-> pend]
  ELSE [success |-> TRUE,
        pending |-> [pend EXCEPT ![cookie] = [circuitId |-> circuitId, timestamp |-> 0]]]

establishRendezvous(pend, circuitId, cookie) ==
  IF CookieLength(cookie) # COOKIE_BYTES THEN [success |-> FALSE, pending |-> pend]
  ELSE IF IsPending(pend, cookie) THEN [success |-> FALSE, pending |-> pend]
  ELSE IF PendingSize(pend) >= MAX_PENDING THEN [success |-> FALSE, pending |-> pend]
  ELSE [success |-> TRUE,
        pending |-> [pend EXCEPT ![cookie] = [circuitId |-> circuitId, timestamp |-> 0]]]

\* joinRendezvous setting the visitor's pair id only
joinRendezvous_OneWay(pend, h, cs, hostCircuitId, cookie) ==
  IF ~IsPending(pend, cookie)
  THEN [success |-> FALSE, visitorCircuitId |-> NullId, pending |-> pend, heap |-> h]
  ELSE LET pending == pend[cookie]
           pend1   == [pend EXCEPT ![cookie] = NoPending]
           gv      == getCircuit(h, cs, pending.circuitId)
           gh      == getCircuit(gv.heap, cs, hostCircuitId)
       IN IF gv.circuit = 0 \/ gh.circuit = 0
          THEN [success |-> FALSE, visitorCircuitId |-> NullId,
                pending |-> pend1, heap |-> gh.heap]
          ELSE [success |-> TRUE, visitorCircuitId |-> pending.circuitId,
                pending |-> pend1,
                heap |-> [gh.heap EXCEPT
                            ![gv.circuit].rendezvousPairId = hostCircuitId]]

\* joinRendezvous deleting the cookie only when both circuits exist
joinRendezvous_KeepsCookie(pend, h, cs, hostCircuitId, cookie) ==
  IF ~IsPending(pend, cookie)
  THEN [success |-> FALSE, visitorCircuitId |-> NullId, pending |-> pend, heap |-> h]
  ELSE LET pending == pend[cookie]
           pend1   == [pend EXCEPT ![cookie] = NoPending]
           gv      == getCircuit(h, cs, pending.circuitId)
           gh      == getCircuit(gv.heap, cs, hostCircuitId)
       IN IF gv.circuit = 0 \/ gh.circuit = 0
          THEN [success |-> FALSE, visitorCircuitId |-> NullId,
                pending |-> pend, heap |-> gh.heap]
          ELSE [success |-> TRUE, visitorCircuitId |-> pending.circuitId,
                pending |-> pend1,
                heap |-> [gh.heap EXCEPT
                            ![gv.circuit].rendezvousPairId = hostCircuitId,
                            ![gh.circuit].rendezvousPairId = pending.circuitId]]

joinRendezvous(pend, h, cs, hostCircuitId, cookie) ==
  IF ~IsPending(pend, cookie)
  THEN [success |-> FALSE, visitorCircuitId |-> NullId, pending |-> pend, heap |-> h]
  ELSE LET pending == pend[cookie]
           pend1   == [pend EXCEPT ![cookie] = NoPending]
           gv      == getCircuit(h, cs, pending.circuitId)
           gh      == getCircuit(gv.heap, cs, hostCircuitId)
       IN IF gv.circuit = 0 \/ gh.circuit = 0
          THEN [success |-> FALSE, visitorCircuitId |-> NullId,
                pending |-> pend1, heap |-> gh.heap]
          ELSE [success |-> TRUE, visitorCircuitId |-> pending.circuitId,
                pending |-> pend1,
                heap |-> [gh.heap EXCEPT
                            ![gv.circuit].rendezvousPairId = hostCircuitId,
                            ![gh.circuit].rendezvousPairId = pending.circuitId]]

cleanupPendingRendezvous(pend) ==
  [c \in Cookies20 |->
     IF pend[c] # NoPending /\ pend[c].timestamp > COOKIE_TTL_MS THEN NoPending ELSE pend[c]]

(***************************************************************************)
(* tracker.cjs.  A Map is a sequence of records in insertion order, one    *)
(* per key (field roomId): set() of a stored key keeps its place.  Times:  *)
(* expiresAt is kept as the ticks left until it ("expiresAt <= now" is     *)
(* "expiresAt <= 0"), createdAt as an age.                                 *)
(***************************************************************************)
RoomIds     == {"r1", "r2", "r3"}
Metadata    == {"m1", "m2"}
EntryRelays == {"wss://e1"}
Peers       == {"wss://A", "wss://B"}

FederatedTtl == (roomTtlMs * 3) \div 2    \* roomTtlMs * 1.5

Max(a, b) == IF a > b THEN a ELSE b

Has(m, roomId)    == \E i \in 1..Len(m) : m[i].roomId = roomId
Get(m, roomId)    == m[CHOOSE i \in 1..Len(m) : m[i].roomId = roomId]
Set(m, entry)     ==
  IF Has(m, entry.roomId)
  THEN [i \in 1..Len(m) |-> IF m[i].roomId = entry.roomId THEN entry ELSE m[i]]
  ELSE Append(m, entry)
Delete(m, roomId) == SelectSeq(m, LAMBDA e : e.roomId # roomId)
KeysOf(m)         == {m[i].roomId : i \in 1..Len(m)}

\* pr.field of a parsed JSON object: undefined (Null) when the object has no such field
Field(pr, name) == IF name \in DOMAIN pr THEN pr[name] ELSE Null

Room(roomId, metadata, entryRelay, isPrivate, createdAt, expiresAt) ==
  [roomId |-> roomId, metadata |-> metadata, entryRelay |-> entryRelay,
   isPrivate |-> isPrivate, createdAt |-> createdAt, expiresAt |-> expiresAt]

FederatedRoom(roomId, metadata, entryRelay, sourceRelay, expiresAt) ==
  [roomId |-> roomId, metadata |-> metadata, entryRelay |-> entryRelay,
   sourceRelay |-> sourceRelay, expiresAt |-> expiresAt]

NoSession == [ws |-> NoWs, circuitId |-> NullId]

\* the two room tables of a tracker
NoTables == [rooms |-> <<>>, federated |-> <<>>, dbPending |-> TRUE]

Session(ws, circuitId) == [ws |-> ws, circuitId |-> circuitId]

\* a tracker response: Buffer.from([MSG_RESPONSE, ok]), or the QUERY page
NoResponse == [op |-> "none", ok |-> FALSE, nextCursor |-> 0, entries |-> <<>>]
Response(op, ok) == [NoResponse EXCEPT !.op = op, !.ok = ok]

handleRegister_Renews(rs, sessions, isPrivate, roomId, entryRelay, metadata, ws, circuitId) ==
  IF ~Has(rs, roomId) /\ Len(rs) >= maxRooms
  THEN [ok |-> FALSE, rooms |-> rs, sessions |-> sessions]
  ELSE [ok |-> TRUE,
        rooms |-> Set(rs, Room(roomId, metadata, entryRelay, isPrivate, 0, roomTtlMs)),
        sessions |-> [sessions EXCEPT ![roomId] = Session(ws, circuitId)]]

handleRegister(rs, sessions, isPrivate, roomId, entryRelay, metadata, ws, circuitId) ==
  IF ~Has(rs, roomId) /\ Len(rs) >= maxRooms
  THEN [ok |-> FALSE, rooms |-> rs, sessions |-> sessions]
  ELSE [ok |-> TRUE,
        rooms |-> Set(rs, Room(roomId, metadata, entryRelay, isPrivate,
                               IF Has(rs, roomId) THEN Get(rs, roomId).createdAt ELSE 0,
                               roomTtlMs)),
        sessions |-> [sessions EXCEPT ![roomId] = Session(ws, circuitId)]]

handleHeartbeat_Creates(rs, roomId) ==
  IF ~Has(rs, roomId)
  THEN [ok |-> TRUE, rooms |-> Append(rs, Room(roomId, "m1", "wss://e1", FALSE, 0, roomTtlMs))]
  ELSE [ok |-> TRUE, rooms |-> Set(rs, [Get(rs, roomId) EXCEPT !.expiresAt = roomTtlMs])]

handleHeartbeat(rs, roomId) ==
  IF ~Has(rs, roomId) THEN [ok |-> FALSE, rooms |-> rs]
  ELSE [ok |-> TRUE, rooms |-> Set(rs, [Get(rs, roomId) EXCEPT !.expiresAt = roomTtlMs])]

\* the entries QUERY collects: public unexpired local rooms, then unexpired
\* federated rooms whose id is no local room
Entry(room) ==
  [roomId |-> room.roomId, metadata |-> room.metadata, entryRelay |-> room.entryRelay]

RECURSIVE MapSeq(_, _)
MapSeq(Op(_), m) == IF m = <<>> THEN <<>> ELSE <<Op(Head(m))>> \o MapSeq(Op, Tail(m))

PublicLocal_WithExpired(rs) == SelectSeq(rs, LAMBDA room : ~room.isPrivate)
PublicFederated_NoPriority(rs, fed) == SelectSeq(fed, LAMBDA room : room.expiresAt > 0)

PublicLocal(rs) == SelectSeq(rs, LAMBDA room : ~room.isPrivate /\ room.expiresAt > 0)
PublicFederated(rs, fed) ==
  SelectSeq(fed, LAMBDA room : room.expiresAt > 0 /\ ~Has(rs, room.roomId))

handleQuery_SkipsOne(rs, fed, queryCursor, queryCount) ==
  LET cnt         == Min(queryCount, QUERY_MAX)
      publicRooms == MapSeq(Entry, PublicLocal(rs)) \o MapSeq(Entry, PublicFederated(rs, fed))
      start       == Min(queryCursor, Len(publicRooms))
      slice       == SubSeq(publicRooms, start + 1, Min(start + cnt, Len(publicRooms)))
  IN [Response("query", TRUE) EXCEPT !.nextCursor = start + Len(slice) + 1, !.entries = slice]

handleQuery(rs, fed, queryCursor, queryCount) ==
  LET cnt         == Min(queryCount, QUERY_MAX)
      publicRooms == MapSeq(Entry, PublicLocal(rs)) \o MapSeq(Entry, PublicFederated(rs, fed))
      start       == Min(queryCursor, Len(publicRooms))
      slice       == SubSeq(publicRooms, start + 1, Min(start + cnt, Len(publicRooms)))
  IN [Response("query", TRUE) EXCEPT !.nextCursor = start + Len(slice), !.entries = slice]

\* session.ws.readyState === 1, read from the socket of the circuit object ws
WsOpen(h, ws) == ws # NoWs /\ h[ws].inboundWs = "OPEN"

handleIntroduce(sessions, h, roomId, cookie, relayUrl) ==
  LET session == sessions[roomId] IN
  IF session = NoSession \/ ~WsOpen(h, session.ws)
  THEN [ok |-> FALSE, sessions |-> [sessions EXCEPT ![roomId] = NoSession], sent |-> {}]
  ELSE [ok |-> TRUE, sessions |-> sessions,
        sent |-> {[op |-> "introData", circuit |-> NoWs, ws |-> session.ws,
                   ct |-> encrypt(Frame("INTRODUCE_DATA", relayUrl, cookie, Null),
                                  NoKey, session.circuitId),
                   pk |-> 0]}]

ListEntry(room, federated) ==
  [roomId |-> room.roomId, metadata |-> room.metadata, entryRelay |-> room.entryRelay,
   federated |-> federated]
LocalEntry(room)     == ListEntry(room, FALSE)
FederatedEntry(room) == ListEntry(room, TRUE)

listPublicRooms(rs, fed) ==
  MapSeq(LocalEntry, PublicLocal(rs)) \o MapSeq(FederatedEntry, PublicFederated(rs, fed))

\* setFederatedRooms: the loop over peerRooms, after the old entries of sourceRelay are gone
RECURSIVE mergePeerRooms(_, _, _, _)
mergePeerRooms(rs, fed, sourceRelay, peerRooms) ==
  IF peerRooms = <<>> THEN fed
  ELSE LET pr == Head(peerRooms)
           skip == \/ Field(pr, "roomId") = Null
                   \/ Field(pr, "metadata") = Null
                   \/ Field(pr, "entryRelay") = Null
                   \/ Has(rs, Field(pr, "roomId"))
       IN mergePeerRooms(rs,
            IF skip THEN fed
            ELSE Set(fed, FederatedRoom(pr.roomId, pr.metadata, pr.entryRelay,
                                        sourceRelay, FederatedTtl)),
            sourceRelay, Tail(peerRooms))

setFederatedRooms_Keeps(rs, fed, sourceRelay, peerRooms) ==
  mergePeerRooms(rs, fed, sourceRelay, peerRooms)

setFederatedRooms(rs, fed, sourceRelay, peerRooms) ==
  mergePeerRooms(rs, SelectSeq(fed, LAMBDA room : room.sourceRelay # sourceRelay),
                 sourceRelay, peerRooms)

cleanupExpiredRooms(rs, sessions, fed, h) ==
  LET expired == {rs[i].roomId : i \in {j \in 1..Len(rs) : rs[j].expiresAt <= 0}}
      s1 == [r \in RoomIds |-> IF r \in expired THEN NoSession ELSE sessions[r]]
  IN [rooms |-> SelectSeq(rs, LAMBDA room : room.expiresAt > 0),
      federated |-> SelectSeq(fed, LAMBDA room : room.expiresAt > 0),
      sessions |-> [r \in RoomIds |->
                      IF s1[r] # NoSession
                         /\ (s1[r].ws = NoWs \/ h[s1[r].ws].inboundWs # "OPEN")
                      THEN NoSession ELSE s1[r]]]

\* restoreLocal without "if (!rooms.has(entry.roomId))"
RECURSIVE restoreLocal_Overwrites(_, _)
restoreLocal_Overwrites(rs, loaded) ==
  IF loaded = <<>> THEN rs
  ELSE restoreLocal_Overwrites(Set(rs, [Head(loaded) EXCEPT !.createdAt = 0]),
                               Tail(loaded))

\* configure: the rooms loadRooms() found are merged into the tables
RECURSIVE restoreLocal(_, _)
restoreLocal(rs, loaded) ==
  IF loaded = <<>> THEN rs
  ELSE restoreLocal(IF Has(rs, Head(loaded).roomId) THEN rs
                    ELSE Append(rs, [Head(loaded) EXCEPT !.createdAt = 0]),
                    Tail(loaded))

RECURSIVE restoreFederated(_, _, _)
restoreFederated(rs, fed, loaded) ==
  IF loaded = <<>> THEN fed
  ELSE restoreFederated(rs,
         IF Has(fed, Head(loaded).roomId) \/ Has(rs, Head(loaded).roomId) THEN fed
         ELSE Append(fed, Head(loaded)),
         Tail(loaded))

(***************************************************************************)
(* gossip.cjs fetchRoomsFrom and the GET /api/rooms handler of the peer    *)
(* (index.cjs): the JSON the peer answers, and what is passed on.          *)
(***************************************************************************)
WireRoom(r) ==
  [id |-> r.roomId, metadata |-> r.metadata, relay |-> r.entryRelay,
   federated |-> r.federated]

apiRooms(rs, fed) == MapSeq(WireRoom, listPublicRooms(rs, fed))

fetchRoomsFrom_All(body) == body

fetchRoomsFrom(body) == SelectSeq(body, LAMBDA r : ~r.federated)

(***************************************************************************)
(* gossip.cjs.  URLs are strings; what new URL(..) and the regular         *)
(* expressions make of them is tabulated for the URLs of the model.  The   *)
(* clock starts late enough for now - ACTIVE_WINDOW_MS to be positive, as  *)
(* it is for Date.now().                                                   *)
(***************************************************************************)
GossipEpoch == ACTIVE_WINDOW_MS + 1

myUrl      == "wss://me.example"
SEED_NODES == {"wss://seed.example"}

\* url -> <<scheme, parsed.hostname, url.length>>
UrlTable ==
  [u \in {"wss://me.example", "wss://seed.example", "wss://peer.example",
          "ws://127.0.0.1:9", "ws://127.0.0.2:9", "ws://[::1]:9", "ws://10.0.0.5",
          "ws://192.168.1.9", "ws://169.254.1.1", "ws://172.16.0.1",
          "http://peer.example", "wss://long.example/aa"} |->
     CASE u = "wss://me.example"      -> <<"wss", "me.example", 16>>
       [] u = "wss://seed.example"    -> <<"wss", "seed.example", 18>>
       [] u = "wss://peer.example"    -> <<"wss", "peer.example", 18>>
       [] u = "ws://127.0.0.1:9"      -> <<"ws", "127.0.0.1", 16>>
       [] u = "ws://127.0.0.2:9"      -> <<"ws", "127.0.0.2", 16>>
       [] u = "ws://[::1]:9"          -> <<"ws", "[::1]", 12>>
       [] u = "ws://10.0.0.5"         -> <<"ws", "10.0.0.5", 13>>
       [] u = "ws://192.168.1.9"      -> <<"ws", "192.168.1.9", 16>>
       [] u = "ws://169.254.1.1"      -> <<"ws", "169.254.1.1", 16>>
       [] u = "ws://172.16.0.1"       -> <<"ws", "172.16.0.1", 15>>
       [] u = "http://peer.example"   -> <<"http", "peer.example", 19>>
       [] u = "wss://long.example/aa" -> <<"wss", "long.example", URL_MAX + 1>>]
Urls == DOMAIN UrlTable

Scheme(url)    == UrlTable[url][1]
Hostname(url)  == UrlTable[url][2]
UrlLength(url) == UrlTable[url][3]

\* the hostnames of the model each regular expression of isInternalUrl matches
RegexMatches(pattern) ==
  CASE pattern = "^10."       -> {"10.0.0.5"}
    [] pattern = "^172.16-31." -> {"172.16.0.1"}
    [] pattern = "^192.168."  -> {"192.168.1.9"}
    [] pattern = "^169.254."  -> {"169.254.1.1"}
    [] pattern = "^fc00:|^fd" -> {}

isInternalUrl(url) ==
  LET host == Hostname(url) IN
  \/ host \in {"localhost", "127.0.0.1", "::1", "0.0.0.0"}
  \/ host \in RegexMatches("^10.")
  \/ host \in RegexMatches("^172.16-31.")
  \/ host \in RegexMatches("^192.168.")
  \/ host \in RegexMatches("^169.254.")
  \/ host \in RegexMatches("^fc00:|^fd")

\* /^[0-9a-f]{64}$/i, for the key strings of the model
Hex64   == {"kx64", "sign64", "other64"}
KeyStrings == Hex64 \cup {"short"}

\* a JSON value where a number is expected
Num(n)  == [type |-> "number", val |-> n]
NotNum  == [type |-> "string", val |-> 0]
NoTs    == [type |-> "undefined", val |-> 0]
TsField(a) == IF "ts" \in DOMAIN a THEN a.ts ELSE NoTs
TruthyTs(ts) == ts # NoTs /\ ~(ts.type = "number" /\ ts.val = 0)

\* crypto.cjs sign / verify (detached signature)
SignSk(signPk) == <<"signSk", signPk>>
sign(message, secretKey) == [message |-> message, by |-> secretKey[2]]
verify(sig, message, publicKey) == sig.message = message /\ sig.by = publicKey

AnnounceMessage(url, pk, ts) == <<url, pk, ts>>    \* `${url}|${pk}|${ts}`

verifyAnnouncement(a, now) ==
  /\ "url" \in DOMAIN a /\ "pk" \in DOMAIN a /\ "signPk" \in DOMAIN a
  /\ TruthyTs(TsField(a)) /\ "sig" \in DOMAIN a
  /\ Scheme(a.url) \in {"wss", "ws"}
  /\ UrlLength(a.url) <= URL_MAX
  /\ a.pk \in Hex64
  /\ a.signPk \in Hex64
  /\ a.ts.type = "number"
  /\ ~(a.ts.val < now - ANNOUNCE_MAX_AGE_MS)
  /\ ~(a.ts.val > now + ANNOUNCE_MAX_FUTURE_MS)
  /\ ~isInternalUrl(a.url)
  /\ verify(a.sig, AnnounceMessage(a.url, a.pk, a.ts.val), a.signPk)

isValidPeer(p) ==
  /\ "url" \in DOMAIN p
  /\ Scheme(p.url) \in {"ws", "wss"}
  /\ UrlLength(p.url) <= URL_MAX
  /\ "pk" \in DOMAIN p
  /\ p.pk \in Hex64
  /\ ~isInternalUrl(p.url)

isSeedNode(url) == url \in SEED_NODES

NoPeer == [pk |-> Null, signPk |-> Null, tracker |-> FALSE, ts |-> 0, failures |-> 0,
           lastSeen |-> -1]
Peer(pk, signPk, tracker, ts, failures, lastSeen) ==
  [pk |-> pk, signPk |-> signPk, tracker |-> tracker, ts |-> ts, failures |-> failures,
   lastSeen |-> lastSeen]

PeerCount(kp) == Cardinality({u \in Urls : kp[u] # NoPeer})

TsOf(rp, now) == IF TruthyTs(TsField(rp)) THEN rp.ts.val ELSE now
\* rp.lastSeen || 0
LastSeenOf(rp) == IF "lastSeen" \in DOMAIN rp THEN rp.lastSeen ELSE 0

mergePeer(kp, rp, now) ==
  IF ~isValidPeer(rp) \/ rp.url = myUrl THEN kp
  ELSE LET existing == kp[rp.url] IN
       IF existing = NoPeer
       THEN IF PeerCount(kp) >= MAX_PEERS THEN kp
            ELSE [kp EXCEPT ![rp.url] =
                    Peer(rp.pk, IF "signPk" \in DOMAIN rp THEN rp.signPk ELSE "",
                         "tracker" \in DOMAIN rp /\ rp.tracker, TsOf(rp, now), 0,
                         LastSeenOf(rp))]
       ELSE LET newer == TruthyTs(TsField(rp)) /\ rp.ts.val > existing.ts
                e1 == IF newer
                      THEN [existing EXCEPT
                              !.pk = rp.pk,
                              !.signPk = IF "signPk" \in DOMAIN rp THEN rp.signPk ELSE @,
                              !.tracker = IF "tracker" \in DOMAIN rp THEN rp.tracker ELSE @,
                              !.ts = rp.ts.val,
                              !.lastSeen = IF LastSeenOf(rp) > @ THEN LastSeenOf(rp) ELSE @]
                      ELSE existing
            IN [kp EXCEPT ![rp.url] =
                  IF isSeedNode(rp.url) THEN [e1 EXCEPT !.failures = 0] ELSE e1]

RECURSIVE mergeEach(_, _, _)
mergeEach(kp, remotePeers, now) ==
  IF remotePeers = <<>> THEN kp
  ELSE mergeEach(mergePeer(kp, Head(remotePeers), now), Tail(remotePeers), now)

mergePeers(kp, remotePeers, now) ==
  mergeEach(kp, SubSeq(remotePeers, 1, Min(Len(remotePeers), MERGE_MAX)), now)

getActivePeers(kp, now) ==
  {u \in Urls : kp[u] # NoPeer /\ kp[u].failures < MAX_FAILURES
                 /\ kp[u].lastSeen > now - ACTIVE_WINDOW_MS}

incrementFailure(kp, peerUrl) ==
  IF kp[peerUrl] = NoPeer THEN kp
  ELSE [kp EXCEPT ![peerUrl].failures = IF isSeedNode(peerUrl) THEN 0 ELSE @ + 1]

\* fetchedPeers, but a successful fetch resets the failure count
fetchedPeers_Resets(kp, peerUrl, remotePeers, now) ==
  LET merged == mergePeers(kp, remotePeers, now) IN
  IF merged[peerUrl] = NoPeer THEN merged
  ELSE [merged EXCEPT ![peerUrl].lastSeen = now, ![peerUrl].failures = 0]

\* fetchPeersFrom, res.on('end') with a body that parses
fetchedPeers(kp, peerUrl, remotePeers, now) ==
  LET merged == mergePeers(kp, remotePeers, now) IN
  IF merged[peerUrl] = NoPeer THEN merged
  ELSE [merged EXCEPT ![peerUrl].lastSeen = now,
                      ![peerUrl].failures =
                         IF isSeedNode(peerUrl) THEN 0 ELSE Max(0, @ - 1)]

\* postAnnouncement, res.on('end')
announced(kp, peerUrl, now) ==
  IF kp[peerUrl] = NoPeer THEN kp ELSE [kp EXCEPT ![peerUrl].lastSeen = now]

\* start(): the saved peers, then the seed nodes, then this node itself
startPeers(saved, now) ==
  [u \in Urls |->
     IF u = myUrl THEN Peer("kx64", "sign64", TRUE,
                            IF saved[u] # NoPeer THEN saved[u].ts ELSE now,
                            IF saved[u] # NoPeer THEN saved[u].failures ELSE 0, now)
     ELSE IF isSeedNode(u)
          THEN IF saved[u] # NoPeer THEN [saved[u] EXCEPT !.failures = 0]
               ELSE Peer("", "", FALSE, now, 0, 0)
          ELSE saved[u]]

(***************************************************************************)
(* relay.cjs: what a step sends.  One record per sendToCircuit call (also  *)
(* when the socket is not open and nothing leaves) and per raw ws.send.    *)
(***************************************************************************)
Sent(op, circuit, ws, ct, pk) ==
  [op |-> op, circuit |-> circuit, ws |-> ws, ct |-> ct, pk |-> pk]

sendToCircuit(h, o, plaintext) ==
  Sent("sendToCircuit", o, IF h[o].inboundWs = "OPEN" THEN o ELSE NoWs,
       encrypt(plaintext, h[o].tx, h[o].circuitId), 0)

\* op: the operation; circuit: the circuit object it ran for; id: that object's
\* circuit id; live: whether the registry held that object when it ran
NoEvent ==
  [op |-> "init", circuit |-> 0, id |-> NullId, live |-> FALSE, cookie |-> Null,
   data |-> Null, success |-> FALSE, visitor |-> NullId, cpk |-> 0, ws |-> NoWs]

(***************************************************************************)
(* Initial state: relay-server.cjs after configure(), no circuit yet.      *)
(***************************************************************************)
Keys   == 1..MaxKeys
HopIds == 1..MaxHops
DEFAULT_ROTATION == 240   \* relay-server.cjs: cfg.keyRotationIntervalMs || 3600000

NoHop == [state |-> "none", circuit |-> 0, url |-> Null, payload |-> Null]

(***************************************************************************)
(* tunnel-proxy.cjs and rate-limit.cjs: the objects of the model.          *)
(***************************************************************************)
Conns      == 1..MaxConn       \* host control WebSockets; tunnel c is the one of socket c
ReqIds     == 1..MaxReqId
Res        == 1..MaxRes
Guests     == 1..MaxGuests
SessionIds == 1..MaxSessions   \* the values randomBytes(32) yields, in order
RoomKeys   == {"aaaa", "bbbb"} \* strings /^[a-f0-9]{16,64}$/ matches
Origins    == {"ip1", "ip2", "ip3"}

\* ws: "none" not connected, "open" readyState 1, "closing" close() was called,
\* "closed" the close event was emitted
NoTunnel == [ws |-> "none", roomKey |-> Null, nextReqId |-> 1,
             pendingHttp |-> [i \in ReqIds |-> 0], wsChannels |-> [i \in ReqIds |-> 0]]
NoGuestSession == [roomKey |-> Null, age |-> 0]
\* timer: ticks until the setTimeout of the request fires, -1 when none is armed
\* first: the armed timer is the one of proxyHttpRequest
NoRes == [state |-> "free", status |-> 0, headersSent |-> FALSE, headersWritten |-> FALSE,
          timer |-> -1, first |-> FALSE, tunnel |-> 0, id |-> 0]
NoTunnelEvent == [op |-> "none", to |-> 0]
ChaffUrls == {"wss://peer.example", "wss://seed.example"}
ChaffSocketIds == 1..MaxSockets
\* state: "none" not created, "connecting", "open", "closing", "closed"
NoSocket == [url |-> Null, state |-> "none"]
NoBucket == [tracked |-> FALSE, timestamps |-> <<>>, blocked |-> 0]
LimiterEpoch == 2 * windowMs + 1

\* the relay: no circuit, no cookie, no timer
InitRelay(interval) ==
  /\ circuits = [i \in CircuitIds |-> 0]
  /\ heap = [o \in Objs |-> NoCircuit]
  /\ pendingRendezvous = [c \in Cookies20 |-> NoPending]
  /\ timers = <<>>
  /\ hops = [x \in HopIds |-> NoHop]
  /\ relayKeypair = 1
  /\ previousKeypair = 0
  /\ zeroedSk = {}
  /\ nextKey = 2
  /\ zeroTimers = <<>>
  /\ rotationInterval = interval
  /\ rotationDue = interval
  /\ cleanupDue = CLEANUP_PERIOD
  /\ retired = [k \in Keys |-> -1]
  /\ out = {}
  /\ ev = NoEvent

\* the tracker holding the local rooms rs and the federated rooms fed, and a
\* client about to page through them queryCount rooms at a time
InitTracker(rs, fed, queryCount) ==
  /\ rooms = rs
  /\ circuitSessions = [r \in RoomIds |-> NoSession]
  /\ federatedRooms = fed
  /\ dbPending = TRUE
  /\ resp = NoResponse
  /\ peers = [p \in Peers |-> NoTables]
  /\ cursor = 0
  /\ count = queryCount
  /\ pages = <<>>
  /\ done = FALSE

\* gossip.cjs after start() with the saved peers of peers.json
InitGossip(saved) ==
  /\ knownPeers = startPeers(saved, GossipEpoch)
  /\ gnow = GossipEpoch
  /\ gev = [op |-> "none"]

\* no host, no session, no request
InitTunnel ==
  /\ hostTunnels = [k \in RoomKeys |-> 0]
  /\ tunnels = [c \in Conns |-> NoTunnel]
  /\ guestSessions = [s \in SessionIds |-> NoGuestSession]
  /\ responses = [r \in Res |-> NoRes]
  /\ guests = [g \in Guests |-> "none"]
  /\ tev = NoTunnelEvent

InitLimiter ==
  /\ buckets = [o \in Origins |-> NoBucket]
  /\ lnow = LimiterEpoch
  /\ allowed = [o \in Origins |-> <<>>]
  /\ called = [o \in Origins |-> 0]
  /\ lev = [op |-> "none"]

\* chaff.cjs before the first refreshChaff
InitChaff ==
  /\ chaffSockets = [x \in ChaffSocketIds |-> NoSocket]
  /\ chaffConnections = [u \in ChaffUrls |-> 0]
  /\ chaffIntervals = {}
  /\ reconnectTimers = [u \in ChaffUrls |-> 0]

NoSaved == [u \in Urls |-> NoPeer]

InitEdge == InitGossip(NoSaved) /\ InitTunnel /\ InitLimiter /\ InitChaff

InitWith(interval) == InitRelay(interval) /\ InitTracker(<<>>, <<>>, 1) /\ InitEdge

Init == InitWith(DEFAULT_ROTATION)

trackerVars == <<rooms, circuitSessions, federatedRooms, dbPending, resp>>
gossipVars  == <<knownPeers, gnow, gev>>
tunnelVars  == <<hostTunnels, tunnels, guestSessions, responses, guests, tev>>
limiterVars == <<buckets, lnow, allowed, called, lev>>
chaffVars   == <<chaffSockets, chaffConnections, chaffIntervals, reconnectTimers>>
edgeVars    == <<gossipVars, tunnelVars, limiterVars, chaffVars>>
envVars     == <<peers, cursor, count, pages, done, edgeVars>>
\* the relay and the tracker, but for the record of the last step
serverVars  == <<circuits, heap, pendingRendezvous, timers, hops, relayKeypair,
                 previousKeypair, zeroedSk, nextKey, zeroTimers, rotationInterval,
                 rotationDue, cleanupDue, retired, rooms, circuitSessions,
                 federatedRooms, dbPending, peers, cursor, count, pages, done>>
keyVars   == <<relayKeypair, previousKeypair, zeroedSk, nextKey, zeroTimers,
               rotationInterval, rotationDue, retired>>
relayVars == <<circuits, heap, pendingRendezvous, timers, hops>>

(***************************************************************************)
(* Garbage: a circuit object that neither the registry, nor a pending      *)
(* timer, nor a next-hop socket refers to can no longer be reached by any  *)
(* code.  Every step works on gc, the heap without the garbage, so a slot  *)
(* of the heap is reused and MaxObj bounds the objects alive at once.      *)
(***************************************************************************)
IsLive(o) == heap[o].circuitId # NullId /\ circuits[heap[o].circuitId] = o

Referenced(o) ==
  \/ IsLive(o)
  \/ \E i \in 1..Len(timers) : timers[i].circuit = o
  \/ \E x \in HopIds : hops[x].circuit = o
  \/ \E r \in RoomIds : circuitSessions[r].ws = o

gc == [o \in Objs |-> IF Referenced(o) THEN heap[o] ELSE NoCircuit]

(***************************************************************************)
(* relay.cjs handleHandshake, reached from handlePacket when getCircuit    *)
(* finds no circuit.  The client (room-publisher.cjs TrackerCircuit.build) *)
(* makes a new keypair for every handshake.  Whether sodium's key exchange *)
(* throws for a keypair is decided outside this code: "fails" names the    *)
(* keypairs for which it does.                                             *)
(***************************************************************************)
SkOf(k) == IF k \in zeroedSk THEN Sk(0) ELSE Sk(k)

ClientPk(h) == 100 + Fresh(h)

\* the keypair whose key exchange yields "keys" (0: return without keys)
HandshakeKeypair(fails) ==
  IF "current" \notin fails THEN relayKeypair
  ELSE IF previousKeypair # 0 /\ "previous" \notin fails THEN previousKeypair
  ELSE 0

\* the public key the reply carries in clear
ReplyPublicKey(used) == relayKeypair

handleHandshake(circuitId, fails) ==
  LET used == HandshakeKeypair(fails)
      cpk  == ClientPk(gc)
      keys == serverSessionKeys(used, SkOf(used), cpk)
      ws   == Fresh(gc)
      reg  == registerCircuit(gc, circuits, circuitId, keys.rx, keys.tx, "OPEN")
  IN IF used # 0 /\ reg.ok
     THEN /\ heap' = reg.heap
          /\ circuits' = reg.circuits
          /\ out' = {Sent("handshakeReply", reg.circuits[circuitId], ws,
                          encrypt(Frame("HANDSHAKE_REPLY", Null, Null, "pk"),
                                  keys.tx, circuitId),
                          ReplyPublicKey(used))}
          /\ ev' = [NoEvent EXCEPT !.op = "handshake", !.id = circuitId,
                                    !.circuit = reg.circuits[circuitId],
                                    !.live = TRUE, !.success = TRUE, !.cpk = cpk]
     ELSE /\ heap' = gc
          /\ UNCHANGED circuits
          /\ out' = {}
          /\ ev' = [NoEvent EXCEPT !.op = "handshake", !.id = circuitId, !.cpk = cpk]

Handshake(circuitId, fails) ==
  /\ circuits[circuitId] = 0
  /\ Fresh(gc) # 0
  /\ handleHandshake(circuitId, fails)
  /\ UNCHANGED <<pendingRendezvous, timers, hops, keyVars, cleanupDue, trackerVars, envVars>>

\* a handshake that arrives while the registry is full: no circuit object is made
HandshakeFull(circuitId, fails) ==
  /\ circuits[circuitId] = 0
  /\ Size(circuits) >= maxCircuits
  /\ handleHandshake(circuitId, fails)
  /\ UNCHANGED <<pendingRendezvous, timers, hops, keyVars, cleanupDue, trackerVars, envVars>>

(***************************************************************************)
(* relay.cjs handlePacket for a circuit the registry holds: decrypt with   *)
(* the circuit's rx key and the header's circuit id as associated data,    *)
(* then setTimeout(processMessage, jitter) with the circuit object.        *)
(***************************************************************************)
Payloads == {"p1"}
HopUrls  == {"wss://hop"}

DataMessages      == {Frame("DATA", Null, Null, d) : d \in Payloads}
EstablishMessages == {Frame("ESTABLISH_RENDEZVOUS", Null, c, Null) : c \in CookieInputs}
JoinMessages      == {Frame("RENDEZVOUS_JOIN", Null, c, "h1") : c \in CookieInputs}
DestroyMessages   == {Frame("CIRCUIT_DESTROY", Null, Null, Null)}
RelayMessages     == {Frame("RELAY", u, Null, "x1") : u \in HopUrls}

OfCookie(msgs, cookies) == {m \in msgs : m.cookie \in cookies}

Timer(msg, circuit) == [msg |-> msg, circuit |-> circuit]

handlePacket(circuitId, key, msg) ==
  LET g         == getCircuit(gc, circuits, circuitId)
      plaintext == decrypt(encrypt(msg, key, circuitId), gc[g.circuit].rx, circuitId)
  IN /\ heap' = g.heap
     /\ timers' = IF plaintext = NoFrame THEN timers
                  ELSE Append(timers, Timer(plaintext, g.circuit))
     /\ out' = {}
     /\ ev' = [NoEvent EXCEPT !.op = "packet", !.circuit = g.circuit,
                              !.id = circuitId, !.live = TRUE,
                              !.success = (plaintext # NoFrame)]

HandlePacket(circuitId, authentic, msg) ==
  /\ circuits[circuitId] # 0
  /\ Len(timers) < MaxTimers
  /\ handlePacket(circuitId,
                  IF authentic THEN gc[circuits[circuitId]].rx ELSE ZeroKey, msg)
  /\ UNCHANGED <<circuits, pendingRendezvous, hops, keyVars, cleanupDue, trackerVars, envVars>>

(***************************************************************************)
(* relay.cjs handlePacket from its first line.  A packet on the wire is    *)
(* nonce(24) + circuitId(4) + ..., so rawData[0] is the first byte of the  *)
(* nonce, which the sender draws with randombytes_buf (crypto.cjs encrypt, *)
(* room-publisher.cjs build); a packet with rawData[0] = 0xFF is dropped   *)
(* as chaff before the circuit id is read.  Handshake and HandlePacket are *)
(* the handler for the packets that pass this test.                        *)
(***************************************************************************)
NonceFirstBytes == {0, CHAFF_TAG}

RawPacket(first, circuitId, authentic, msg) ==
  \/ /\ first = CHAFF_TAG
     /\ ev' = [op |-> "chaff", id |-> circuitId,
               established |-> (circuits[circuitId] # 0), authentic |-> authentic]
     /\ out' = {}
     /\ UNCHANGED <<serverVars, resp, edgeVars>>
  \/ /\ first # CHAFF_TAG
     /\ authentic
     /\ Handshake(circuitId, {})
  \/ /\ first # CHAFF_TAG
     /\ HandlePacket(circuitId, authentic, msg)

(***************************************************************************)
(* relay.cjs processMessage, run by the timer with the circuit object the  *)
(* packet was decrypted for.                                               *)
(***************************************************************************)
Remove(seq, i) == SubSeq(seq, 1, i - 1) \o SubSeq(seq, i + 1, Len(seq))

ProcessEvent(op, t) ==
  [NoEvent EXCEPT !.op = op, !.circuit = t.circuit, !.id = gc[t.circuit].circuitId,
                  !.live = IsLive(t.circuit), !.cookie = t.msg.cookie,
                  !.data = t.msg.data]

\* case MSG.DATA
processData(t) ==
  LET circuit == gc[t.circuit]
      g == getCircuit(gc, circuits, circuit.rendezvousPairId)
  IN /\ IF Truthy(circuit.rendezvousPairId) /\ g.circuit # 0
        THEN /\ heap' = g.heap
             /\ out' = {sendToCircuit(g.heap, g.circuit,
                                      Frame("DATA", Null, Null, t.msg.data))}
        ELSE /\ heap' = gc
             /\ out' = {}
     /\ ev' = ProcessEvent("data", t)
     /\ UNCHANGED <<circuits, pendingRendezvous, hops>>

\* case MSG.ESTABLISH_RENDEZVOUS
processEstablish(t) ==
  LET circuit == gc[t.circuit]
      result  == establishRendezvous(pendingRendezvous, circuit.circuitId, t.msg.cookie)
  IN /\ pendingRendezvous' = result.pending
     /\ out' = {sendToCircuit(gc, t.circuit,
                              Frame("RENDEZVOUS_ESTABLISHED", Null, Null,
                                    IF result.success THEN "1" ELSE "0"))}
     /\ ev' = [ProcessEvent("establish", t) EXCEPT !.success = result.success]
     /\ heap' = gc
     /\ UNCHANGED <<circuits, hops>>

\* case MSG.RENDEZVOUS_JOIN
processJoin(t) ==
  LET circuit    == gc[t.circuit]
      joinResult == joinRendezvous(pendingRendezvous, gc, circuits,
                                   circuit.circuitId, t.msg.cookie)
      g == getCircuit(joinResult.heap, circuits, joinResult.visitorCircuitId)
  IN /\ pendingRendezvous' = joinResult.pending
     /\ IF joinResult.success /\ g.circuit # 0
        THEN /\ heap' = g.heap
             /\ out' = {sendToCircuit(g.heap, g.circuit,
                                      Frame("RENDEZVOUS_JOIN", Null, Null, t.msg.data))}
        ELSE /\ heap' = joinResult.heap
             /\ out' = {}
     /\ ev' = [ProcessEvent("join", t) EXCEPT !.success = joinResult.success,
                                             !.visitor = joinResult.visitorCircuitId]
     /\ UNCHANGED <<circuits, hops>>

\* case MSG.CIRCUIT_DESTROY
processDestroy(t) ==
  LET r == destroyCircuit(gc, circuits, hops, gc[t.circuit].circuitId)
  IN /\ heap' = r.heap
     /\ circuits' = r.circuits
     /\ hops' = r.hops
     /\ out' = {}
     /\ ev' = ProcessEvent("destroy", t)
     /\ UNCHANGED pendingRendezvous

(***************************************************************************)
(* relay.cjs forwardToHop and the handlers of the WebSocket it opens.      *)
(***************************************************************************)
FreeHop(hp) ==
  IF \E x \in HopIds : hp[x] = NoHop
  THEN CHOOSE x \in HopIds : hp[x] = NoHop /\ \A y \in HopIds : y < x => hp[y] # NoHop
  ELSE 0

OutboundOpen(hp, h, o) == h[o].outboundWs # NoWs /\ hp[h[o].outboundWs].state = "open"

HopSent(hop, data) ==
  Sent("hopSend", hops[hop].circuit, hop, encrypt(Frame("RAW", Null, Null, data), NoKey, NullId), 0)

\* case MSG.RELAY: if (nextHop) forwardToHop(nextHop, payload, circuit)
forwardToHop(hopUrl, payload, circuit) ==
  IF OutboundOpen(hops, gc, circuit)
  THEN /\ out' = {Sent("hopSend", circuit, gc[circuit].outboundWs,
                       encrypt(Frame("RAW", Null, Null, payload), NoKey, NullId), 0)}
       /\ UNCHANGED hops
  ELSE /\ hops' = [hops EXCEPT ![FreeHop(hops)] =
                     [state |-> "connecting", circuit |-> circuit, url |-> hopUrl,
                      payload |-> payload]]
       /\ out' = {}

processRelay(t) ==
  /\ OutboundOpen(hops, gc, t.circuit) \/ FreeHop(hops) # 0
  /\ forwardToHop(t.msg.nextHop, t.msg.data, t.circuit)
  /\ ev' = ProcessEvent("relay", t)
  /\ heap' = gc
  /\ UNCHANGED <<circuits, pendingRendezvous>>

(***************************************************************************)
(* relay.cjs processMessage, case MSG.TRACKER_*: the co-hosted tracker     *)
(* (index.cjs setTrackerHandler) answers, and the answer goes back on the  *)
(* circuit.  The socket handed to the tracker is the one the packet came   *)
(* in on: the circuit's own.                                               *)
(***************************************************************************)
RegisterBody(isPrivate, roomId, entryRelay, metadata) ==
  [isPrivate |-> isPrivate, roomId |-> roomId, entryRelay |-> entryRelay,
   metadata |-> metadata]
IntroduceBody(roomId, relayUrl) == [roomId |-> roomId, relayUrl |-> relayUrl]

RegisterMessages ==
  {Frame("TRACKER_REGISTER", Null, Null, RegisterBody(p, r, e, m)) :
     p \in BOOLEAN, r \in RoomIds, e \in EntryRelays, m \in Metadata}
IntroduceMessages ==
  {Frame("TRACKER_INTRODUCE", Null, c, IntroduceBody(r, u)) :
     c \in Cookies20, r \in RoomIds, u \in HopUrls}
TrackerTypes == {"TRACKER_REGISTER", "TRACKER_INTRODUCE"}

OfRoom(msgs, roomIds) == {m \in msgs : m.data.roomId \in roomIds}

\* handleTrackerMessage(payload, ws, circuitIdBuf)
handleTrackerMessage(msg, ws, circuitId) ==
  IF msg.msgType = "TRACKER_REGISTER"
  THEN LET r == handleRegister(rooms, circuitSessions, msg.data.isPrivate,
                               msg.data.roomId, msg.data.entryRelay,
                               msg.data.metadata, ws, circuitId)
       IN [response |-> Response("register", r.ok), rooms |-> r.rooms,
           sessions |-> r.sessions, sent |-> {}]
  ELSE LET r == handleIntroduce(circuitSessions, gc, msg.data.roomId, msg.cookie,
                                msg.data.relayUrl)
       IN [response |-> Response("introduce", r.ok), rooms |-> rooms,
           sessions |-> r.sessions, sent |-> r.sent]

processTracker(t) ==
  LET r == handleTrackerMessage(t.msg, t.circuit, gc[t.circuit].circuitId)
  IN /\ rooms' = r.rooms
     /\ circuitSessions' = r.sessions
     /\ resp' = r.response
     /\ out' = r.sent \cup
               {sendToCircuit(gc, t.circuit,
                              Frame("TRACKER_RESPONSE", Null, Null,
                                    IF r.response.ok THEN "1" ELSE "0"))}
     /\ ev' = [ProcessEvent(r.response.op, t) EXCEPT
                 !.success = r.response.ok, !.data = t.msg.data.roomId]
     /\ heap' = gc
     /\ UNCHANGED <<circuits, pendingRendezvous, hops, federatedRooms, dbPending>>

processMessage(t) ==
  CASE t.msg.msgType = "DATA"                 -> processData(t)
    [] t.msg.msgType = "ESTABLISH_RENDEZVOUS" -> processEstablish(t)
    [] t.msg.msgType = "RENDEZVOUS_JOIN"      -> processJoin(t)
    [] t.msg.msgType = "CIRCUIT_DESTROY"      -> processDestroy(t)
    [] t.msg.msgType = "RELAY"                -> processRelay(t)
    [] t.msg.msgType \in TrackerTypes         -> processTracker(t)

\* a jitter timer fires; the delays are random, so any pending one may be next
ProcessMessage(i) ==
  /\ i \in 1..Len(timers)
  /\ processMessage(timers[i])
  /\ timers' = Remove(timers, i)
  /\ timers[i].msg.msgType \notin TrackerTypes => UNCHANGED trackerVars
  /\ UNCHANGED <<keyVars, cleanupDue, envVars>>

HopEvent(op, hop) ==
  [NoEvent EXCEPT !.op = op, !.circuit = hops[hop].circuit,
                  !.id = gc[hops[hop].circuit].circuitId,
                  !.live = IsLive(hops[hop].circuit)]

\* ws.on('open'): ws.send(padPacket(payload))
HopOpen(hop) ==
  /\ hops[hop].state = "connecting"
  /\ hops' = [hops EXCEPT ![hop].state = "open"]
  /\ out' = {HopSent(hop, hops[hop].payload)}
  /\ ev' = HopEvent("hopOpen", hop)
  /\ heap' = gc
  /\ UNCHANGED <<circuits, pendingRendezvous, timers, keyVars, cleanupDue, trackerVars, envVars>>

\* ws.on('message'): the first reply links the socket to the circuit
HopMessage(hop, raw) ==
  /\ hops[hop].state \in {"open", "closing"}
  /\ LET circuit == hops[hop].circuit
         linked  == [gc EXCEPT ![circuit].outboundWs = hop,
                                 ![circuit].nextHop = hops[hop].url]
     IN
     IF gc[circuit].outboundWs = NoWs
     THEN /\ heap' = linked
          /\ out' = {sendToCircuit(linked, circuit,
                                   Frame("HANDSHAKE_REPLY", Null, Null, raw))}
     ELSE /\ heap' = gc
          /\ out' = {sendToCircuit(gc, circuit,
                                   Frame("RAW", Null, Null, raw))}
  /\ ev' = HopEvent("hopMessage", hop)
  /\ UNCHANGED <<circuits, pendingRendezvous, timers, hops, keyVars, cleanupDue, trackerVars, envVars>>

\* ws.on('close') / ws.on('error')
HopClose(hop) ==
  /\ hops[hop].state \in {"connecting", "open", "closing"}
  /\ hops' = [hops EXCEPT ![hop] = NoHop]
  /\ heap' = IF gc[hops[hop].circuit].outboundWs = hop
             THEN [gc EXCEPT ![hops[hop].circuit].outboundWs = NoWs]
             ELSE gc
  /\ out' = {}
  /\ ev' = HopEvent("hopClose", hop)
  /\ UNCHANGED <<circuits, pendingRendezvous, timers, keyVars, cleanupDue, trackerVars, envVars>>

(***************************************************************************)
(* relay-server.cjs wssCircuit.on('connection'): the socket has a message  *)
(* and an error handler; its closing runs no code of the relay.            *)
(***************************************************************************)
WsClose(ws) ==
  /\ gc[ws].inboundWs = "OPEN"
  /\ heap' = [gc EXCEPT ![ws].inboundWs = "CLOSED"]
  /\ out' = {}
  /\ ev' = [NoEvent EXCEPT !.op = "wsClose", !.ws = ws, !.circuit = ws,
                           !.id = gc[ws].circuitId, !.live = IsLive(ws)]
  /\ UNCHANGED <<circuits, pendingRendezvous, timers, hops, keyVars, cleanupDue, trackerVars, envVars>>

(***************************************************************************)
(* index.cjs HTTP endpoints of the tracker, and the tracker's other entry  *)
(* points.                                                                 *)
(***************************************************************************)
TrackerEvent(op, roomId, ok) ==
  [NoEvent EXCEPT !.op = op, !.data = roomId, !.success = ok]

\* POST /api/register: handleTrackerMessage(payload, null, null)
RegisterHttp(isPrivate, roomId, entryRelay, metadata) ==
  LET r == handleRegister(rooms, circuitSessions, isPrivate, roomId, entryRelay,
                          metadata, NoWs, NullId)
  IN /\ rooms' = r.rooms
     /\ circuitSessions' = r.sessions
     /\ resp' = [Response("register", r.ok) EXCEPT
                   !.entries = <<RegisterBody(isPrivate, roomId, entryRelay, metadata)>>]
     /\ ev' = TrackerEvent("register", roomId, r.ok)
     /\ out' = {}
     /\ UNCHANGED <<relayVars, keyVars, cleanupDue, federatedRooms, dbPending, envVars>>

Heartbeat(roomId) ==
  LET r == handleHeartbeat(rooms, roomId)
  IN /\ rooms' = r.rooms
     /\ resp' = Response("heartbeat", r.ok)
     /\ ev' = TrackerEvent("heartbeat", roomId, r.ok)
     /\ out' = {}
     /\ UNCHANGED <<relayVars, keyVars, cleanupDue, circuitSessions, federatedRooms,
                    dbPending, envVars>>

Query(queryCursor, queryCount) ==
  /\ resp' = handleQuery(rooms, federatedRooms, queryCursor, queryCount)
  /\ ev' = TrackerEvent("query", Null, TRUE)
  /\ out' = {}
  /\ UNCHANGED <<relayVars, keyVars, cleanupDue, rooms, circuitSessions,
                 federatedRooms, dbPending, envVars>>

\* a client pages through the public rooms: each QUERY asks from the cursor the
\* last answer returned, until an answer holds fewer rooms than asked for
Page ==
  /\ ~done
  /\ LET r == handleQuery(rooms, federatedRooms, cursor, count)
     IN /\ resp' = r
        /\ pages' = pages \o r.entries
        /\ cursor' = r.nextCursor
        /\ done' = (Len(r.entries) < count)
  /\ ev' = TrackerEvent("query", Null, TRUE)
  /\ out' = {}
  /\ UNCHANGED <<relayVars, keyVars, cleanupDue, rooms, circuitSessions,
                 federatedRooms, dbPending, peers, count, edgeVars>>

\* GET /api/rooms
ListRooms ==
  /\ resp' = [Response("list", TRUE) EXCEPT
                !.entries = listPublicRooms(rooms, federatedRooms)]
  /\ ev' = TrackerEvent("list", Null, TRUE)
  /\ out' = {}
  /\ UNCHANGED <<relayVars, keyVars, cleanupDue, rooms, circuitSessions,
                 federatedRooms, dbPending, envVars>>

SetFederatedRooms(sourceRelay, peerRooms) ==
  /\ federatedRooms' = setFederatedRooms(rooms, federatedRooms, sourceRelay, peerRooms)
  /\ resp' = [Response("setFederated", TRUE) EXCEPT !.entries = peerRooms]
  /\ ev' = TrackerEvent("setFederated", sourceRelay, TRUE)
  /\ out' = {}
  /\ UNCHANGED <<relayVars, keyVars, cleanupDue, rooms, circuitSessions, dbPending,
                 envVars>>

\* configure: trackerDb.loadRooms() settles with the rooms of the database
\* (resp records what it loaded)
Restore(loadedLocal, loadedFederated) ==
  /\ dbPending
  /\ dbPending' = FALSE
  /\ rooms' = restoreLocal(rooms, loadedLocal)
  /\ federatedRooms' = restoreFederated(restoreLocal(rooms, loadedLocal),
                                        federatedRooms, loadedFederated)
  /\ resp' = [Response("restore", TRUE) EXCEPT !.entries = loadedLocal \o loadedFederated]
  /\ ev' = TrackerEvent("restore", Null, TRUE)
  /\ out' = {}
  /\ UNCHANGED <<relayVars, keyVars, cleanupDue, circuitSessions, envVars>>

(***************************************************************************)
(* gossip.cjs federateRooms: every tracker runs the same code.  The        *)
(* tracker of this model pulls from its peers; a peer registers rooms,     *)
(* restores its database and pulls from the other peer.                    *)
(***************************************************************************)
PeerEvent(op, peer, roomId) ==
  [NoEvent EXCEPT !.op = op, !.data = peer, !.cookie = roomId, !.success = TRUE]

PeerRegister(peer, isPrivate, roomId, entryRelay, metadata) ==
  LET r == handleRegister(peers[peer].rooms, circuitSessions, isPrivate, roomId,
                          entryRelay, metadata, NoWs, NullId)
  IN /\ peers' = [peers EXCEPT ![peer].rooms = r.rooms]
     /\ ev' = PeerEvent("peerRegister", peer, roomId)
     /\ out' = {}
     /\ UNCHANGED <<relayVars, keyVars, cleanupDue, trackerVars, cursor, count, pages, done,
                    edgeVars>>

PeerRestore(peer, loadedFederated) ==
  /\ peers[peer].dbPending
  /\ peers' = [peers EXCEPT
                 ![peer].dbPending = FALSE,
                 ![peer].federated = restoreFederated(peers[peer].rooms, @, loadedFederated)]
  /\ ev' = PeerEvent("peerRestore", peer, Null)
  /\ out' = {}
  /\ UNCHANGED <<relayVars, keyVars, cleanupDue, trackerVars, cursor, count, pages, done,
                    edgeVars>>

\* federateRooms on the peer: GET /api/rooms of the source, then onFederatedRooms
PeerPull(peer, sourceRelay) ==
  /\ peer # sourceRelay
  /\ peers' = [peers EXCEPT
                 ![peer].federated =
                    setFederatedRooms(peers[peer].rooms, @, sourceRelay,
                      fetchRoomsFrom(apiRooms(peers[sourceRelay].rooms,
                                              peers[sourceRelay].federated)))]
  /\ ev' = PeerEvent("peerPull", peer, sourceRelay)
  /\ out' = {}
  /\ UNCHANGED <<relayVars, keyVars, cleanupDue, trackerVars, cursor, count, pages, done,
                    edgeVars>>

\* federateRooms on this tracker
Pull(sourceRelay) ==
  /\ SetFederatedRooms(sourceRelay,
                       fetchRoomsFrom(apiRooms(peers[sourceRelay].rooms,
                                               peers[sourceRelay].federated)))

(***************************************************************************)
(* relay-server.cjs: setInterval(cleanup, 30000) and the passing of time.  *)
(* A timer that is due runs before time passes further; the jitter delays  *)
(* of handlePacket are milliseconds (config.maxJitter) and end within the  *)
(* tick in which they began.                                               *)
(***************************************************************************)
Older(age) == Min(age + 1, MaxAge)

Tick ==
  /\ cleanupDue > 0
  /\ timers = <<>>
  /\ cleanupDue' = cleanupDue - 1
  /\ heap' = [o \in Objs |->
                IF IsLive(o) THEN [gc[o] EXCEPT !.lastActivity = Older(@)] ELSE gc[o]]
  /\ pendingRendezvous' =
       [c \in Cookies20 |->
          IF pendingRendezvous[c] # NoPending
          THEN [pendingRendezvous[c] EXCEPT !.timestamp = Older(@)]
          ELSE NoPending]
  /\ rooms' = [i \in 1..Len(rooms) |->
                 [rooms[i] EXCEPT !.expiresAt = Max(@ - 1, 0),
                                 !.createdAt = Min(@ + 1, MaxRoomAge)]]
  /\ federatedRooms' = [i \in 1..Len(federatedRooms) |->
                          [federatedRooms[i] EXCEPT !.expiresAt = Max(@ - 1, 0)]]
  /\ out' = {}
  /\ ev' = [NoEvent EXCEPT !.op = "tick"]
  /\ UNCHANGED <<circuits, timers, hops, keyVars, circuitSessions, dbPending, resp,
                 envVars>>

RECURSIVE AscendingFrom(_)
AscendingFrom(i) == IF i > MaxCircuitId THEN <<>> ELSE <<i>> \o AscendingFrom(i + 1)

Cleanup ==
  /\ cleanupDue = 0
  /\ cleanupDue' = CLEANUP_PERIOD
  /\ LET r == cleanupExpiredFrom(gc, circuits, hops, AscendingFrom(0))
         c == cleanupExpiredRooms(rooms, circuitSessions, federatedRooms, r.heap)
     IN
       /\ heap' = r.heap
       /\ circuits' = r.circuits
       /\ hops' = r.hops
       /\ rooms' = c.rooms
       /\ circuitSessions' = c.sessions
       /\ federatedRooms' = c.federated
  /\ pendingRendezvous' = cleanupPendingRendezvous(pendingRendezvous)
  /\ out' = {}
  /\ ev' = [NoEvent EXCEPT !.op = "cleanup"]
  /\ UNCHANGED <<timers, keyVars, dbPending, resp, envVars>>

(***************************************************************************)
(* relay.cjs rotateKeys, run by relay-server.cjs setInterval(.., interval) *)
(***************************************************************************)
RotationIntervals == {4, 12}   \* 60 s and 180 s: cfg.keyRotationIntervalMs

InitKeys == \E interval \in RotationIntervals : InitWith(interval)

rotateKeys ==
  /\ previousKeypair' = relayKeypair
  /\ relayKeypair' = nextKey
  /\ nextKey' = nextKey + 1
  /\ zeroTimers' = Append(zeroTimers, GRACE_MS)
  /\ UNCHANGED zeroedSk

RotateKeys ==
  /\ rotationDue = 0
  /\ nextKey <= MaxKeys
  /\ rotateKeys
  /\ rotationDue' = rotationInterval
  /\ retired' = [retired EXCEPT ![relayKeypair] = 0]
  /\ out' = {}
  /\ ev' = [NoEvent EXCEPT !.op = "rotate"]
  /\ UNCHANGED <<relayVars, trackerVars, envVars, rotationInterval, cleanupDue>>

\* the setTimeout callback of rotateKeys; equal delays fire in creation order
ZeroPrevious ==
  /\ zeroTimers # <<>>
  /\ Head(zeroTimers) = 0
  /\ zeroTimers' = Tail(zeroTimers)
  /\ IF previousKeypair # 0
     THEN /\ zeroedSk' = zeroedSk \cup {previousKeypair}
          /\ previousKeypair' = 0
     ELSE UNCHANGED <<zeroedSk, previousKeypair>>
  /\ out' = {}
  /\ ev' = [NoEvent EXCEPT !.op = "zeroPrevious"]
  /\ UNCHANGED <<relayVars, trackerVars, envVars, relayKeypair, nextKey, rotationInterval,
                 rotationDue, retired, cleanupDue>>

TickKeys ==
  /\ rotationDue > 0
  /\ \A i \in 1..Len(zeroTimers) : zeroTimers[i] > 0
  /\ rotationDue' = rotationDue - 1
  /\ zeroTimers' = [i \in 1..Len(zeroTimers) |-> zeroTimers[i] - 1]
  /\ retired' = [k \in Keys |-> IF retired[k] >= 0 THEN Older(retired[k]) ELSE retired[k]]
  /\ out' = {}
  /\ ev' = [NoEvent EXCEPT !.op = "tick"]
  /\ UNCHANGED <<relayVars, trackerVars, envVars, relayKeypair, previousKeypair, zeroedSk, nextKey,
                 rotationInterval, cleanupDue>>

(***************************************************************************)
(* Specifications.  Spec: the relay without the passing of time.  SpecTime *)
(* adds the clock and the periodic sweep.  SpecKeys: handshakes under key  *)
(* rotation.                                                               *)
(***************************************************************************)
KxFailures == SUBSET {"current", "previous"}

\* the rendezvous of one cookie, DATA and CIRCUIT_DESTROY
PairMessages ==
  DataMessages \cup DestroyMessages
  \cup OfCookie(EstablishMessages \cup JoinMessages, {"c1"})

Next ==
  \/ \E id \in CircuitIds : Handshake(id, {})
  \/ \E id \in CircuitIds, authentic \in BOOLEAN, msg \in PairMessages :
       HandlePacket(id, authentic, msg)
  \/ \E i \in 1..MaxTimers : ProcessMessage(i)
  \/ \E ws \in Objs : WsClose(ws)

Spec == Init /\ [][Next]_vars

\* the rendezvous table under every cookie: establish and join only
CookieMessages == EstablishMessages \cup OfCookie(JoinMessages, Cookies20)

NextCookies ==
  \/ \E id \in CircuitIds : Handshake(id, {})
  \/ \E id \in CircuitIds, msg \in CookieMessages : HandlePacket(id, TRUE, msg)
  \/ \E i \in 1..MaxTimers : ProcessMessage(i)

SpecCookies == Init /\ [][NextCookies]_vars

\* handshakes and packets with every first byte of the nonce
NextWire ==
  \/ \E first \in NonceFirstBytes, id \in CircuitIds, authentic \in BOOLEAN,
        msg \in DataMessages \cup DestroyMessages : RawPacket(first, id, authentic, msg)
  \/ \E i \in 1..MaxTimers : ProcessMessage(i)

SpecWire == Init /\ [][NextWire]_vars

\* the rendezvous of one cookie under the clock and the periodic sweep
TimedMessages == OfCookie(EstablishMessages \cup JoinMessages, {"c1"})

NextTime ==
  \/ \E id \in CircuitIds : Handshake(id, {})
  \/ \E id \in CircuitIds, msg \in TimedMessages : HandlePacket(id, TRUE, msg)
  \/ \E i \in 1..MaxTimers : ProcessMessage(i)
  \/ Tick
  \/ Cleanup

SpecTime == Init /\ [][NextTime]_vars

\* RELAY and CIRCUIT_DESTROY with the next-hop sockets
HopMessages == RelayMessages \cup DestroyMessages

NextHops ==
  \/ \E id \in CircuitIds : Handshake(id, {})
  \/ \E id \in CircuitIds, msg \in HopMessages : HandlePacket(id, TRUE, msg)
  \/ \E i \in 1..MaxTimers : ProcessMessage(i)
  \/ \E hop \in HopIds : HopOpen(hop)
  \/ \E hop \in HopIds : HopMessage(hop, "r1")
  \/ \E hop \in HopIds : HopClose(hop)
  \/ \E ws \in Objs : WsClose(ws)

SpecHops == Init /\ [][NextHops]_vars

\* handshakes, DATA and CIRCUIT_DESTROY under the clock and the periodic sweep
SweepMessages == DataMessages \cup DestroyMessages

NextSweep ==
  \/ \E id \in CircuitIds : Handshake(id, {})
  \/ \E id \in CircuitIds : HandshakeFull(id, {})
  \/ \E id \in CircuitIds, authentic \in BOOLEAN, msg \in SweepMessages :
       HandlePacket(id, authentic, msg)
  \/ \E i \in 1..MaxTimers : ProcessMessage(i)
  \/ Tick
  \/ Cleanup

SpecSweep == Init /\ [][NextSweep]_vars

\* time passes: the jitter timers (milliseconds) run out however many packets
\* keep arriving, the clock advances and the interval fires
FairSweep ==
  /\ SpecSweep
  /\ \A n \in 0..(MaxTimers - 1) :
       SF_vars(\E i \in 1..MaxTimers : ProcessMessage(i) /\ Len(timers') = n)
  /\ SF_vars(Tick)
  /\ WF_vars(Cleanup)

\* the tracker reached over circuits: one room, registered and introduced to
IntroduceTraffic ==
  {m \in OfRoom(RegisterMessages, {"r1"}) : ~m.data.isPrivate /\ m.data.metadata = "m1"}
    \cup OfCookie(OfRoom(IntroduceMessages, {"r1"}), {"c1"})
    \cup DestroyMessages

HostIds == {1}   \* the circuit id the host of the room uses

NextIntroduce ==
  \/ \E id \in HostIds : Handshake(id, {})
  \/ \E id \in HostIds, msg \in IntroduceTraffic : HandlePacket(id, TRUE, msg)
  \/ \E i \in 1..MaxTimers : ProcessMessage(i)
  \/ \E ws \in Objs : WsClose(ws)
  \/ Tick
  \/ Cleanup

SpecIntroduce == Init /\ [][NextIntroduce]_vars

\* one room and two circuits: each registers it and introduces to it, and
\* POST /api/register names it too; no circuit ends and no time passes
OwnershipTraffic ==
  {m \in OfRoom(RegisterMessages, {"r1"}) : ~m.data.isPrivate}
    \cup OfCookie(OfRoom(IntroduceMessages, {"r1"}), {"c1"})

NextOwnership ==
  \/ \E id \in {1, 2} : Handshake(id, {})
  \/ \E id \in {1, 2}, msg \in OwnershipTraffic : HandlePacket(id, TRUE, msg)
  \/ \E i \in 1..MaxTimers : ProcessMessage(i)
  \/ RegisterHttp(FALSE, "r1", "wss://e1", "m2")

SpecOwnership == Init /\ [][NextOwnership]_vars

\* QUERY as a function of the tables: every pair of room tables a tracker can
\* hold, up to the bounds, and a client paging through them
Tables(choices, n) ==
  {t \in UNION {[1..k -> choices] : k \in 0..n} :
     \A i, j \in 1..Len(t) : i # j => t[i].roomId # t[j].roomId}

LocalChoices ==
  {Room(r, "m1", "wss://e1", p, 0, x) : r \in RoomIds, p \in BOOLEAN, x \in {0, roomTtlMs}}
FederatedChoices ==
  {FederatedRoom(r, "m2", "wss://e1", "wss://A", x) : r \in RoomIds, x \in {0, FederatedTtl}}

InitQuery ==
  /\ InitRelay(DEFAULT_ROTATION)
  /\ InitEdge
  /\ \E rs \in Tables(LocalChoices, maxRooms), fed \in Tables(FederatedChoices, MaxFederated),
        n \in 1..MaxCount : InitTracker(rs, fed, n)

NextQuery == Page

SpecQuery == InitQuery /\ [][NextQuery]_vars

\* the client keeps asking until the short page
FairQuery == SpecQuery /\ WF_vars(Page)

\* the tracker with federation: rooms registered over HTTP, lists of rooms
\* handed over by gossip (well-formed entries, an entry without entryRelay, and
\* an entry in the layout GET /api/rooms answers), queries, time and the sweep
PeerRoom(roomId, metadata) ==
  [roomId |-> roomId, metadata |-> metadata, entryRelay |-> "wss://e1"]
PeerEntries ==
  {PeerRoom("r1", "m2"), PeerRoom("r2", "m2"), PeerRoom("r1", "m1"),
   [roomId |-> "r3", metadata |-> "m2"],
   WireRoom(ListEntry(Room("r3", "m2", "wss://e1", FALSE, 0, roomTtlMs), FALSE))}
PeerLists == UNION {[1..k -> PeerEntries] : k \in 0..MaxList}

NextFederated ==
  \/ RegisterHttp(FALSE, "r1", "wss://e1", "m1")
  \/ \E sourceRelay \in Peers, peerRooms \in PeerLists :
       SetFederatedRooms(sourceRelay, peerRooms)
  \/ Tick
  \/ Cleanup

SpecFederated == Init /\ [][NextFederated]_vars

\* QUERY and GET /api/rooms as functions of the tables
InitList ==
  /\ InitRelay(DEFAULT_ROTATION)
  /\ InitEdge
  /\ \E rs \in Tables(LocalChoices, maxRooms), fed \in Tables(FederatedChoices, MaxFederated) :
        InitTracker(rs, fed, 1)

NextList ==
  \/ \E queryCursor \in 0..1, queryCount \in 1..MaxCount : Query(queryCursor, queryCount)
  \/ ListRooms

SpecList == InitList /\ [][NextList]_vars

\* federation between this tracker and its peers A and B
Shadows == {<<>>, <<FederatedRoom("r3", "m2", "wss://e1", "wss://A", FederatedTtl)>>}

NextFederation ==
  \/ \E peer \in Peers, isPrivate \in BOOLEAN, roomId \in {"r1", "r2"} :
       PeerRegister(peer, isPrivate, roomId, "wss://e1", "m1")
  \/ \E peer \in Peers, loadedFederated \in Shadows : PeerRestore(peer, loadedFederated)
  \/ \E peer \in Peers, sourceRelay \in Peers : PeerPull(peer, sourceRelay)
  \/ \E sourceRelay \in Peers : Pull(sourceRelay)
  \/ RegisterHttp(FALSE, "r1", "wss://e1", "m1")

SpecFederation == Init /\ [][NextFederation]_vars

\* the local room table: registrations and heartbeats over HTTP, the rooms the
\* database held when the tracker started, time and the sweep
LoadedChoices == {Room(r, "m1", "wss://e1", FALSE, 0, roomTtlMs) : r \in RoomIds}
LoadedLocal   == Tables(LoadedChoices, maxRooms)

NextRooms ==
  \/ \E isPrivate \in BOOLEAN, roomId \in RoomIds :
       RegisterHttp(isPrivate, roomId, "wss://e1", "m1")
  \/ \E roomId \in RoomIds : Heartbeat(roomId)
  \/ \E loadedLocal \in LoadedLocal, loadedFederated \in Shadows :
       Restore(loadedLocal, loadedFederated)
  \/ Tick
  \/ Cleanup

SpecRooms == Init /\ [][NextRooms]_vars

\* the restore of the database against the rooms registered and federated while
\* it was loading: the database holds other metadata ("m2", "m3") for the same ids
RestoredLocal     == Tables({Room(r, "m2", "wss://e1", FALSE, 0, roomTtlMs) : r \in {"r1", "r2"}}, 2)
RestoredFederated ==
  Tables({FederatedRoom(r, "m3", "wss://e1", "wss://B", FederatedTtl) : r \in RoomIds}, 2)
FederatedLists    == {<<PeerRoom(r, "m1")>> : r \in {"r2", "r3"}}

NextRestore ==
  \/ \E roomId \in {"r1", "r2"} : RegisterHttp(FALSE, roomId, "wss://e1", "m1")
  \/ \E peerRooms \in FederatedLists : SetFederatedRooms("wss://A", peerRooms)
  \/ \E loadedLocal \in RestoredLocal, loadedFederated \in RestoredFederated :
       Restore(loadedLocal, loadedFederated)
  \/ Tick

SpecRestore == Init /\ [][NextRestore]_vars

NextKeys ==
  \/ RotateKeys
  \/ ZeroPrevious
  \/ TickKeys
  \/ \E id \in CircuitIds, fails \in KxFailures : Handshake(id, fails)

SpecKeys == InitKeys /\ [][NextKeys]_vars

(***************************************************************************)
(* gossip.cjs and the /peers routes of index.cjs.                          *)
(***************************************************************************)
edgeUnchanged == <<serverVars, resp, out, ev, chaffVars>>

\* an announcement as getAnnouncement() of the announcing node builds it, signed
\* with the secret key of signer over the timestamp signedTs
Announcement(url, pk, signPk, ts, signer, signedTs) ==
  [url |-> url, pk |-> pk, signPk |-> signPk, tracker |-> TRUE, ts |-> ts,
   sig |-> sign(AnnounceMessage(url, pk, signedTs), SignSk(signer))]

AnnounceTimes(now) ==
  (now - ANNOUNCE_MAX_AGE_MS - 1)..(now + ANNOUNCE_MAX_FUTURE_MS + 1)

\* the bodies POST /peers/announce is given: well-formed ones for every URL and
\* timestamp, and ones with one field wrong
AnnouncementsAt(now) ==
  {Announcement(u, "kx64", "sign64", Num(now), "sign64", now) : u \in Urls}
  \cup {Announcement("wss://peer.example", "kx64", "sign64", Num(t), "sign64", t) :
          t \in AnnounceTimes(now)}
  \cup {Announcement("wss://peer.example", pk, signPk, Num(now), signPk, now) :
          pk \in KeyStrings, signPk \in KeyStrings}
  \cup {Announcement("wss://peer.example", "kx64", "sign64", Num(now), "other64", now),
        Announcement("wss://peer.example", "kx64", "sign64", Num(now), "sign64", now - 1),
        Announcement("wss://peer.example", "kx64", "sign64", NotNum, "sign64", now),
        [url |-> "wss://peer.example", pk |-> "kx64", signPk |-> "sign64",
         tracker |-> TRUE, ts |-> Num(now)]}

\* POST /peers/announce
Announce(a, limited) ==
  /\ knownPeers' =
       IF ~limited /\ verifyAnnouncement(a, gnow)
       THEN mergePeers(knownPeers, <<a>>, gnow) ELSE knownPeers
  /\ gev' = [op |-> "announce", a |-> a, now |-> gnow,
             status |-> IF limited THEN 429
                        ELSE IF verifyAnnouncement(a, gnow) THEN 200 ELSE 400]
  /\ UNCHANGED <<gnow, tunnelVars, limiterVars, edgeUnchanged>>

\* the peers fetchPeersFrom and postAnnouncement are called for
OtherPeers == {u \in Urls : knownPeers[u] # NoPeer /\ u # myUrl}

\* a peer list as GET /peers of another node answers it
ListedPeer(url, ts, lastSeen, failures) ==
  [url |-> url, pk |-> "kx64", signPk |-> "sign64", tracker |-> TRUE, ts |-> Num(ts),
   failures |-> failures, lastSeen |-> lastSeen]
ListedPeers(now) ==
  {ListedPeer(u, t, ls, f) :
     u \in {"wss://peer.example", "wss://seed.example"},
     t \in {now}, ls \in {0, now}, f \in {MAX_FAILURES}}
PeerListsAt(now) == {<<>>} \cup {<<p>> : p \in ListedPeers(now)}

\* fetchPeersFrom(u): the response ended and its body parsed
FetchOk(u, remotePeers) ==
  /\ u \in OtherPeers
  /\ knownPeers' = fetchedPeers(knownPeers, u, remotePeers, gnow)
  /\ gev' = [op |-> "fetchOk", peer |-> u, now |-> gnow]
  /\ UNCHANGED <<gnow, tunnelVars, limiterVars, edgeUnchanged>>

RECURSIVE Times(_, _, _)
Times(n, kp, u) == IF n = 0 THEN kp ELSE Times(n - 1, incrementFailure(kp, u), u)

\* fetchPeersFrom(u): body too large, parse error, 'error' or 'timeout'; after
\* req.destroy() in the timeout handler the request may emit 'error' as well
FetchFail(u, calls) ==
  /\ u \in OtherPeers
  /\ knownPeers[u].failures + calls <= MaxFailures
  /\ knownPeers' = Times(calls, knownPeers, u)
  /\ gev' = [op |-> "fetchFail", peer |-> u, now |-> gnow]
  /\ UNCHANGED <<gnow, tunnelVars, limiterVars, edgeUnchanged>>

\* postAnnouncement(u, ..): the response ended
AnnounceOk(u) ==
  /\ u \in OtherPeers
  /\ knownPeers' = announced(knownPeers, u, gnow)
  /\ gev' = [op |-> "announceOk", peer |-> u, now |-> gnow]
  /\ UNCHANGED <<gnow, tunnelVars, limiterVars, edgeUnchanged>>

\* postAnnouncement(u, ..): 'error' or 'timeout'
AnnounceFail(u, calls) ==
  /\ u \in OtherPeers
  /\ knownPeers[u].failures + calls <= MaxFailures
  /\ knownPeers' = Times(calls, knownPeers, u)
  /\ gev' = [op |-> "announceFail", peer |-> u, now |-> gnow]
  /\ UNCHANGED <<gnow, tunnelVars, limiterVars, edgeUnchanged>>

GetActivePeers ==
  /\ gev' = [op |-> "getActivePeers", now |-> gnow,
             active |-> getActivePeers(knownPeers, gnow)]
  /\ UNCHANGED <<knownPeers, gnow, tunnelVars, limiterVars, edgeUnchanged>>

GossipTick ==
  /\ gnow < MaxNow
  /\ gnow' = gnow + 1
  /\ gev' = [op |-> "tick"]
  /\ UNCHANGED <<knownPeers, tunnelVars, limiterVars, edgeUnchanged>>

\* announcements arriving at a node that knows its seed and one more peer
KnownPeer == Peer("kx64", "sign64", TRUE, GossipEpoch - 2, 0, 0)
InitAnnounce ==
  /\ InitRelay(DEFAULT_ROTATION)
  /\ InitTracker(<<>>, <<>>, 1)
  /\ \E saved \in {NoSaved, [NoSaved EXCEPT !["wss://peer.example"] = KnownPeer]} :
       InitGossip(saved)
  /\ InitTunnel
  /\ InitLimiter
  /\ InitChaff

NextAnnounce ==
  \/ \E a \in AnnouncementsAt(gnow), limited \in BOOLEAN : Announce(a, limited)
  \/ GossipTick

SpecAnnounce == InitAnnounce /\ [][NextAnnounce]_vars

\* the peers.json a node starts from: one peer and the seed, with any failure count
SavedPeers ==
  {[NoSaved EXCEPT !["wss://peer.example"] = p, !["wss://seed.example"] = sd] :
     p \in {NoPeer} \cup {Peer("kx64", "sign64", TRUE, 1, f, ls) :
                            f \in 0..MAX_FAILURES, ls \in {0, 1, GossipEpoch - 1}},
     sd \in {NoPeer, Peer("kx64", "sign64", TRUE, 1, MAX_FAILURES, 0)}}

InitFailures ==
  /\ InitRelay(DEFAULT_ROTATION)
  /\ InitTracker(<<>>, <<>>, 1)
  /\ \E saved \in SavedPeers : InitGossip(saved)
  /\ InitTunnel
  /\ InitLimiter
  /\ InitChaff

NextFailures ==
  \/ \E u \in Urls, remotePeers \in PeerListsAt(gnow) : FetchOk(u, remotePeers)
  \/ \E u \in Urls, calls \in 1..2 : FetchFail(u, calls)
  \/ \E u \in Urls : AnnounceOk(u)
  \/ \E u \in Urls, calls \in 1..2 : AnnounceFail(u, calls)
  \/ GetActivePeers
  \/ GossipTick

SpecFailures == InitFailures /\ [][NextFailures]_vars

(***************************************************************************)
(* tunnel-proxy.cjs and the tunnel routes of index.cjs.                    *)
(***************************************************************************)
notTunnel == <<serverVars, resp, out, ev, gossipVars, limiterVars, chaffVars>>

\* the Cookie header of a guest: 0 none, a session id, or an id never issued
CookieHeaders == 0..(MaxSessions + 1)
GuestPaths    == {"/dashboard", "/index.html"}

\* resolveSession: the room key, or Null
resolveSession(sess, cookie) ==
  IF cookie \notin SessionIds THEN Null
  ELSE IF sess[cookie] = NoGuestSession THEN Null
  ELSE IF sess[cookie].age > SESSION_TTL THEN Null
  ELSE sess[cookie].roomKey

\* resolveSession deletes the session it finds expired
resolvedSessions(sess, cookie) ==
  IF cookie \in SessionIds /\ sess[cookie] # NoGuestSession /\ sess[cookie].age > SESSION_TTL
  THEN [sess EXCEPT ![cookie] = NoGuestSession] ELSE sess

getHostTunnel(ht, roomKey) == IF roomKey \in RoomKeys THEN ht[roomKey] ELSE 0

RegisteredKeys(ht) == {k \in RoomKeys : ht[k] # 0}

getDefaultRoomKey(ht) ==
  IF Cardinality(RegisteredKeys(ht)) # 1 THEN Null
  ELSE CHOOSE k \in RegisteredKeys(ht) : TRUE

\* routeKey, but a request with a session may fall back to the only host
routeKey_Fallback(ht, sess, cookie) ==
  IF resolveSession(sess, cookie) # Null /\ getHostTunnel(ht, resolveSession(sess, cookie)) # 0
  THEN resolveSession(sess, cookie)
  ELSE getDefaultRoomKey(ht)

\* routeKey, but the fallback takes any registered host
routeKey_AnyHost(ht, sess, cookie) ==
  IF resolveSession(sess, cookie) # Null THEN resolveSession(sess, cookie)
  ELSE IF RegisteredKeys(ht) = {} THEN Null
  ELSE CHOOSE k \in RegisteredKeys(ht) : TRUE

\* let roomKey = resolveSession(cookie); if (!roomKey) roomKey = getDefaultRoomKey()
routeKey(ht, sess, cookie) ==
  IF resolveSession(sess, cookie) # Null THEN resolveSession(sess, cookie)
  ELSE getDefaultRoomKey(ht)

FreeRes      == {r \in Res : responses[r].state = "free"}
FreeGuests   == {g \in Guests : guests[g] = "none"}
FreeSessions == {x \in SessionIds : guestSessions[x] = NoGuestSession /\
                                      \A y \in SessionIds : y < x => guestSessions[y] # NoGuestSession}
NextRes      == CHOOSE r \in FreeRes : \A q \in FreeRes : r <= q

\* the close handler registerHost installs on ws: what it does to a response
\* pending on the tunnel
hostDisconnected(res) ==
  IF res.state = "ended" THEN [res EXCEPT !.timer = -1]
  ELSE [res EXCEPT !.timer = -1, !.state = "ended",
                   !.status = IF res.headersSent THEN @ ELSE 502,
                   !.headersSent = TRUE]

\* closeActs, but the handler does not look at the registry
closeActs_Always(ht, ts, c) == ts[c].roomKey \in RoomKeys

\* whether the close handler of socket c acts: hostTunnels.get(roomKey)?.ws === ws
closeActs(ht, ts, c) == ts[c].roomKey \in RoomKeys /\ ht[ts[c].roomKey] = c

PendingOf(ts, c)  == {ts[c].pendingHttp[i] : i \in ReqIds} \ {0}
ChannelsOf(ts, c) == {ts[c].wsChannels[i] : i \in ReqIds} \ {0}

\* wssTunnel 'connection' and the first message of socket c: a register message
\* with a well-formed roomKey calls registerHost, anything else closes the socket
RegisterHost(c, k, valid) ==
  /\ tunnels[c].ws = "none"
  /\ IF ~valid
     THEN /\ tunnels' = [tunnels EXCEPT ![c].ws = "closed"]
          /\ tev' = [op |-> "rejected", to |-> 0, ws |-> c]
          /\ UNCHANGED hostTunnels
     ELSE LET existing == hostTunnels[k] IN
          /\ tunnels' =
               [x \in Conns |->
                  IF x = c THEN [NoTunnel EXCEPT !.ws = "open", !.roomKey = k]
                  ELSE IF x = existing /\ tunnels[x].ws = "open"
                       THEN [tunnels[x] EXCEPT !.ws = "closing"]
                       ELSE tunnels[x]]
          /\ hostTunnels' = [hostTunnels EXCEPT ![k] = c]
          /\ tev' = [op |-> "register", to |-> c, ws |-> c, key |-> k, was |-> existing]
  /\ UNCHANGED <<guestSessions, responses, guests, notTunnel>>

\* the host's socket stops being open (readyState 2 or 3) before its close event
HostDrop(c) ==
  /\ tunnels[c].ws = "open"
  /\ tunnels' = [tunnels EXCEPT ![c].ws = "closing"]
  /\ tev' = [op |-> "hostDrop", to |-> 0, ws |-> c]
  /\ UNCHANGED <<hostTunnels, guestSessions, responses, guests, notTunnel>>

\* ws.on('close') of socket c
HostClose(c) ==
  /\ tunnels[c].ws \in {"open", "closing"}
  /\ tunnels' = [tunnels EXCEPT ![c].ws = "closed"]
  /\ IF closeActs(hostTunnels, tunnels, c)
     THEN /\ responses' = [r \in Res |->
                             IF r \in PendingOf(tunnels, c)
                             THEN hostDisconnected(responses[r]) ELSE responses[r]]
          /\ guests' = [g \in Guests |->
                          IF g \in ChannelsOf(tunnels, c) THEN "closed" ELSE guests[g]]
          /\ hostTunnels' = [hostTunnels EXCEPT ![tunnels[c].roomKey] = 0]
     ELSE UNCHANGED <<responses, guests, hostTunnels>>
  /\ tev' = [op |-> "hostClose", to |-> 0, ws |-> c]
  /\ UNCHANGED <<guestSessions, notTunnel>>

\* proxyHttpRequest(tunnel c, getNextReqId(tunnel), .., res r): the tunnels and
\* the responses afterwards.  ws.send on a socket that is not open either throws
\* or drops the frame, depending on the ws library.
proxiedTunnels(ts, c, r, throws) ==
  LET id == ts[c].nextReqId IN
  [ts EXCEPT ![c].nextReqId = id + 1,
             ![c].pendingHttp[id] = IF ts[c].ws # "open" /\ throws THEN 0 ELSE r]
proxiedResponses(rs, ts, c, r, throws) ==
  [rs EXCEPT ![r] =
     IF ts[c].ws # "open" /\ throws
     THEN [NoRes EXCEPT !.state = "ended", !.status = 502, !.headersSent = TRUE,
                        !.tunnel = c, !.id = ts[c].nextReqId]
     ELSE [NoRes EXCEPT !.state = "open", !.timer = HTTP_TIMEOUT, !.first = TRUE,
                        !.tunnel = c, !.id = ts[c].nextReqId]]
Delivered(ts, c) == IF ts[c].ws = "open" THEN c ELSE 0

\* a response answered by the relay itself
answered(rs, r, status) ==
  [rs EXCEPT ![r] = [NoRes EXCEPT !.state = "ended", !.status = status, !.headersSent = TRUE]]

\* GET /join/ROOMKEY.TOKEN
Join(k, throws) ==
  /\ FreeRes # {} /\ FreeSessions # {}
  /\ LET c == getHostTunnel(hostTunnels, k)
         r == NextRes
         x == CHOOSE x \in FreeSessions : TRUE
     IN IF c = 0
        THEN /\ responses' = answered(responses, r, 503)
             /\ tev' = [op |-> "join", to |-> 0, res |-> r, key |-> k, session |-> 0]
             /\ UNCHANGED <<tunnels, guestSessions>>
        ELSE /\ tunnels[c].nextReqId <= MaxReqId
             /\ guestSessions' = [guestSessions EXCEPT ![x] = [roomKey |-> k, age |-> 0]]
             /\ tunnels' = proxiedTunnels(tunnels, c, r, throws)
             /\ responses' = proxiedResponses(responses, tunnels, c, r, throws)
             /\ tev' = [op |-> "join", to |-> Delivered(tunnels, c), res |-> r, key |-> k,
                        session |-> x]
  /\ UNCHANGED <<hostTunnels, guests, notTunnel>>

\* a GET whose path is no route of the relay: the session-based proxy
HttpRequest(cookie, path, throws) ==
  /\ FreeRes # {}
  /\ LET r == NextRes
         roomKey == routeKey(hostTunnels, guestSessions, cookie)
         c == getHostTunnel(hostTunnels, roomKey)
         e == [op |-> "http", res |-> r, cookie |-> cookie, path |-> path,
               session |-> resolveSession(guestSessions, cookie),
               hosts |-> Cardinality(RegisteredKeys(hostTunnels))]
     IN IF path = "/index.html"
        THEN /\ responses' = answered(responses, r, 404)
             /\ tev' = e @@ [to |-> 0, proxied |-> 0]
             /\ UNCHANGED <<tunnels, guestSessions>>
        ELSE /\ guestSessions' = resolvedSessions(guestSessions, cookie)
             /\ IF roomKey = Null
                THEN /\ responses' = answered(responses, r, 404)
                     /\ tev' = e @@ [to |-> 0, proxied |-> 0]
                     /\ UNCHANGED tunnels
                ELSE IF c = 0
                THEN /\ responses' = answered(responses, r, 502)
                     /\ tev' = e @@ [to |-> 0, proxied |-> 0]
                     /\ UNCHANGED tunnels
                ELSE /\ tunnels[c].nextReqId <= MaxReqId
                     /\ tunnels' = proxiedTunnels(tunnels, c, r, throws)
                     /\ responses' = proxiedResponses(responses, tunnels, c, r, throws)
                     /\ tev' = e @@ [to |-> Delivered(tunnels, c), proxied |-> c]
  /\ UNCHANGED <<hostTunnels, guests, notTunnel>>

\* server 'upgrade' for a guest WebSocket path, wssGuest 'connection' and
\* proxyWebSocket
GuestUpgrade(cookie, throws) ==
  /\ FreeGuests # {}
  /\ LET g == CHOOSE g \in FreeGuests : TRUE
         roomKey == routeKey(hostTunnels, guestSessions, cookie)
         c == getHostTunnel(hostTunnels, roomKey)
         e == [op |-> "upgrade", guest |-> g, cookie |-> cookie,
               session |-> resolveSession(guestSessions, cookie),
               hosts |-> Cardinality(RegisteredKeys(hostTunnels))]
     IN /\ guestSessions' = resolvedSessions(guestSessions, cookie)
        /\ IF roomKey = Null \/ c = 0
           THEN /\ guests' = [guests EXCEPT ![g] = "refused"]
                /\ tev' = e @@ [to |-> 0, proxied |-> 0]
                /\ UNCHANGED tunnels
           ELSE /\ tunnels[c].nextReqId <= MaxReqId
                /\ LET id == tunnels[c].nextReqId
                       fails == tunnels[c].ws # "open" /\ throws
                   IN /\ tunnels' = [tunnels EXCEPT ![c].nextReqId = id + 1,
                                                    ![c].wsChannels[id] =
                                                       IF fails THEN 0 ELSE g]
                      /\ guests' = [guests EXCEPT ![g] = IF fails THEN "closed" ELSE "open"]
                      /\ tev' = e @@ [to |-> Delivered(tunnels, c), proxied |-> c]
  /\ UNCHANGED <<hostTunnels, responses, notTunnel>>

\* guestWs.on('close') of a proxied guest socket
GuestClose(g) ==
  /\ guests[g] \in {"open", "closed"}
  /\ \E c \in Conns : g \in ChannelsOf(tunnels, c)
  /\ LET c == CHOOSE c \in Conns : g \in ChannelsOf(tunnels, c) IN
     /\ tunnels' = [tunnels EXCEPT ![c].wsChannels =
                       [i \in ReqIds |-> IF @[i] = g THEN 0 ELSE @[i]]]
     /\ tev' = [op |-> "guestClose", to |-> Delivered(tunnels, c), guest |-> g]
  /\ guests' = [guests EXCEPT ![g] = "closed"]
  /\ UNCHANGED <<hostTunnels, guestSessions, responses, notTunnel>>

HostFrames == {"http-response-head", "http-response-end", "binary", "ws-close"}

\* handleHostText / handleHostBinary: what a frame of the host of tunnel c with
\* id does to the tunnel, the responses and the guests
framedTunnels(ts, c, type, id) ==
  IF type = "http-response-end" THEN [ts EXCEPT ![c].pendingHttp[id] = 0]
  ELSE IF type = "ws-close" THEN [ts EXCEPT ![c].wsChannels[id] = 0]
  ELSE ts
framedResponses(rs, ts, c, type, id) ==
  LET r == ts[c].pendingHttp[id] IN
  IF r = 0 THEN rs
  ELSE CASE type = "http-response-head" ->
              [rs EXCEPT ![r].timer = CHUNK_TIMEOUT, ![r].first = FALSE,
                         ![r].headersWritten = TRUE,
                         ![r].status = IF rs[r].headersSent THEN @ ELSE 200,
                         ![r].headersSent = TRUE]
         [] type = "http-response-end" ->
              [rs EXCEPT ![r].timer = -1, ![r].state = "ended",
                         ![r].status = IF rs[r].headersSent THEN @ ELSE 200,
                         ![r].headersSent = TRUE]
         [] type = "binary" ->
              IF rs[r].headersWritten
              THEN [rs EXCEPT ![r].timer = CHUNK_TIMEOUT, ![r].first = FALSE]
              ELSE rs
         [] OTHER -> rs
framedGuests(gs, ts, c, type, id) ==
  LET g == ts[c].wsChannels[id] IN
  IF type = "ws-close" /\ g # 0 THEN [gs EXCEPT ![g] = "closed"] ELSE gs

\* ws.on('message') of a registered host socket
HostFrame(c, type, id) ==
  /\ tunnels[c].ws \in {"open", "closing"}
  /\ tunnels[c].roomKey # Null
  /\ tunnels' = framedTunnels(tunnels, c, type, id)
  /\ responses' = framedResponses(responses, tunnels, c, type, id)
  /\ guests' = framedGuests(guests, tunnels, c, type, id)
  /\ tev' = [op |-> "frame", to |-> 0, ws |-> c, type |-> type, id |-> id]
  /\ UNCHANGED <<hostTunnels, guestSessions, notTunnel>>

\* the setTimeout of a request fires: the closure of proxyHttpRequest (504) or
\* the one armed by a head or a chunk (the response is ended)
timedOut(res) ==
  IF res.state = "ended" THEN [res EXCEPT !.timer = -1]
  ELSE [res EXCEPT !.timer = -1, !.state = "ended",
                   !.status = IF res.headersSent THEN @ ELSE IF res.first THEN 504 ELSE 200,
                   !.headersSent = TRUE]

Timeout(r) ==
  /\ responses[r].timer = 0
  /\ responses' = [responses EXCEPT ![r] = timedOut(@)]
  /\ tunnels' = [tunnels EXCEPT ![responses[r].tunnel].pendingHttp[responses[r].id] = 0]
  /\ tev' = [op |-> "timeout", to |-> 0, res |-> r]
  /\ UNCHANGED <<hostTunnels, guestSessions, guests, notTunnel>>

\* cleanupExpiredSessions, from the 30 s interval of index.cjs
CleanupSessions ==
  /\ guestSessions' = [x \in SessionIds |->
                         IF guestSessions[x].age > SESSION_TTL THEN NoGuestSession
                         ELSE guestSessions[x]]
  /\ tev' = [op |-> "cleanupSessions", to |-> 0]
  /\ UNCHANGED <<hostTunnels, tunnels, responses, guests, notTunnel>>

\* 30 s pass; a timer that is due fires first
TunnelTick ==
  /\ \A r \in Res : responses[r].timer # 0
  /\ responses' = [r \in Res |->
                     IF responses[r].timer > 0
                     THEN [responses[r] EXCEPT !.timer = @ - 1] ELSE responses[r]]
  /\ guestSessions' = [x \in SessionIds |->
                         IF guestSessions[x] = NoGuestSession THEN NoGuestSession
                         ELSE [guestSessions[x] EXCEPT !.age = Min(@ + 1, SESSION_TTL + 1)]]
  /\ tev' = [op |-> "tick", to |-> 0]
  /\ UNCHANGED <<hostTunnels, tunnels, guests, notTunnel>>

\* routing: hosts come and go, guests join and send requests, time passes
NextRoute ==
  \/ \E c \in Conns, k \in RoomKeys, valid \in BOOLEAN : RegisterHost(c, k, valid)
  \/ \E c \in Conns : HostClose(c)
  \/ \E k \in RoomKeys : Join(k, FALSE)
  \/ \E cookie \in CookieHeaders, path \in GuestPaths : HttpRequest(cookie, path, FALSE)
  \/ \E cookie \in CookieHeaders : GuestUpgrade(cookie, FALSE)
  \/ \E r \in Res : Timeout(r)
  \/ CleanupSessions
  \/ TunnelTick

SpecRoute == Init /\ [][NextRoute]_vars

\* host connections: registration, replacement, disconnection, with requests
\* and guest channels pending on them
NextHosts ==
  \/ \E c \in Conns, k \in RoomKeys : RegisterHost(c, k, TRUE)
  \/ \E c \in Conns : HostDrop(c)
  \/ \E c \in Conns : HostClose(c)
  \/ \E k \in RoomKeys, throws \in BOOLEAN : Join(k, throws)
  \/ \E throws \in BOOLEAN : GuestUpgrade(0, throws)
  \/ \E g \in Guests : GuestClose(g)
  \/ \E c \in Conns, id \in ReqIds : HostFrame(c, "http-response-head", id)

SpecHosts == Init /\ [][NextHosts]_vars

\* one request after the other through one host
NextProxy ==
  \/ RegisterHost(1, "aaaa", TRUE)
  \/ HostDrop(1)
  \/ HostClose(1)
  \/ \E throws \in BOOLEAN : HttpRequest(0, "/dashboard", throws)
  \/ \E type \in HostFrames, id \in ReqIds : HostFrame(1, type, id)
  \/ \E r \in Res : Timeout(r)
  \/ TunnelTick

SpecProxy == Init /\ [][NextProxy]_vars

\* timers fire when they are due and time passes
FairProxy ==
  /\ SpecProxy
  /\ \A r \in Res : WF_vars(Timeout(r))
  /\ WF_vars(TunnelTick)

(***************************************************************************)
(* rate-limit.cjs: createRateLimiter(maxRequests, windowMs).               *)
(***************************************************************************)
notLimiter == <<serverVars, resp, out, ev, gossipVars, tunnelVars, chaffVars>>

\* timestamps.filter(t => t > cutoff)
After(timestamps, cutoff) ==
  LET Keep(t) == t > cutoff IN SelectSeq(timestamps, Keep)

Tracked(bs) == {o \in Origins : bs[o].tracked}

\* Blocked, but the block lasts through its last instant
Blocked_Inclusive(bucket, now) == bucket.blocked # 0 /\ bucket.blocked >= now

\* bucket.blocked && bucket.blocked > now
Blocked(bucket, now) == bucket.blocked # 0 /\ bucket.blocked > now

\* check(ip): whether the call returns true
checkAllows(bs, ip, now) ==
  /\ bs[ip].tracked \/ Cardinality(Tracked(bs)) < MAX_TRACKED_IPS
  /\ ~Blocked(bs[ip], now)
  /\ Len(After(bs[ip].timestamps, now - windowMs)) < maxRequests

\* check(ip): the buckets afterwards
checked(bs, ip, now) ==
  IF ~bs[ip].tracked /\ Cardinality(Tracked(bs)) >= MAX_TRACKED_IPS THEN bs
  ELSE IF Blocked(bs[ip], now) THEN [bs EXCEPT ![ip].tracked = TRUE]
  ELSE LET fresh == After(bs[ip].timestamps, now - windowMs) IN
       IF Len(fresh) >= maxRequests
       THEN [bs EXCEPT ![ip] = [tracked |-> TRUE, timestamps |-> fresh,
                                blocked |-> now + windowMs]]
       ELSE [bs EXCEPT ![ip] = [tracked |-> TRUE, timestamps |-> Append(fresh, now),
                                blocked |-> 0]]

\* the cleanup interval: one bucket, with entries older than cutoff dropped
cleaned(bucket, now, cutoff) ==
  IF ~bucket.tracked \/ Blocked(bucket, now) THEN bucket
  ELSE IF After(bucket.timestamps, cutoff) = <<>> THEN NoBucket
  ELSE [bucket EXCEPT !.timestamps = After(bucket.timestamps, cutoff)]

\* cleanup, but every timestamp up to now counts as expired
cleanup_Eager(bs, now) == [o \in Origins |-> cleaned(bs[o], now, now)]

cleanup(bs, now) == [o \in Origins |-> cleaned(bs[o], now, now - windowMs * 2)]

Check(ip) ==
  /\ buckets' = checked(buckets, ip, lnow)
  /\ allowed' = IF checkAllows(buckets, ip, lnow)
                THEN [allowed EXCEPT ![ip] = Append(@, lnow)] ELSE allowed
  /\ called' = [called EXCEPT ![ip] = lnow]
  /\ lev' = [op |-> "check", ip |-> ip, result |-> checkAllows(buckets, ip, lnow),
             wasBlocked |-> buckets[ip].blocked # 0,
             waited |-> called[ip] # 0 /\ lnow - called[ip] >= windowMs]
  /\ UNCHANGED <<lnow, notLimiter>>

LimiterCleanup ==
  /\ buckets' = cleanup(buckets, lnow)
  /\ UNCHANGED <<lnow, allowed, called, lev, notLimiter>>

LimiterTick ==
  /\ lnow < MaxClock
  /\ lnow' = lnow + 1
  /\ UNCHANGED <<buckets, allowed, called, lev, notLimiter>>

NextLimiter ==
  \/ \E ip \in Origins : Check(ip)
  \/ LimiterCleanup
  \/ LimiterTick

SpecLimiter == Init /\ [][NextLimiter]_vars

(***************************************************************************)
(* chaff.cjs and refreshChaff of index.cjs.                                *)
(***************************************************************************)
notChaff == <<serverVars, resp, out, ev, gossipVars, tunnelVars, limiterVars>>

FreeSockets == {x \in ChaffSocketIds : chaffSockets[x].state = "none"}

\* connect() for each URL of urls: sockets with one more WebSocket per URL, the
\* lowest free ones
RECURSIVE connected(_, _)
connected(socks, urls) ==
  IF urls = {} THEN socks
  ELSE LET u == CHOOSE u \in urls : TRUE
           x == CHOOSE x \in ChaffSocketIds :
                  /\ socks[x].state = "none"
                  /\ \A y \in ChaffSocketIds : socks[y].state = "none" => x <= y
       IN connected([socks EXCEPT ![x] = [url |-> u, state |-> "connecting"]],
                    urls \ {u})

\* stopChaff: ws.close() for every socket in chaffConnections
stopped(socks, conns) ==
  [x \in ChaffSocketIds |->
     IF (\E u \in ChaffUrls : conns[u] = x) /\ socks[x].state \in {"connecting", "open"}
     THEN [socks[x] EXCEPT !.state = "closing"] ELSE socks[x]]

\* refreshChaff with the active peers urls: startChaff(urls, ..)
StartChaff(urls) ==
  /\ urls # {}
  /\ Cardinality(FreeSockets) >= Cardinality(urls)
  /\ chaffSockets' = connected(stopped(chaffSockets, chaffConnections), urls)
  /\ chaffConnections' = [u \in ChaffUrls |-> 0]
  /\ chaffIntervals' = urls
  /\ UNCHANGED <<reconnectTimers, notChaff>>

\* shutdown: stopChaff()
StopChaff ==
  /\ chaffSockets' = stopped(chaffSockets, chaffConnections)
  /\ chaffConnections' = [u \in ChaffUrls |-> 0]
  /\ chaffIntervals' = {}
  /\ UNCHANGED <<reconnectTimers, notChaff>>

\* ws.on('open')
SocketOpen(x) ==
  /\ chaffSockets[x].state = "connecting"
  /\ chaffSockets' = [chaffSockets EXCEPT ![x].state = "open"]
  /\ chaffConnections' = [chaffConnections EXCEPT ![chaffSockets[x].url] = x]
  /\ UNCHANGED <<chaffIntervals, reconnectTimers, notChaff>>

\* ws.on('error'); the close event follows
SocketError(x) ==
  /\ chaffSockets[x].state \in {"connecting", "open"}
  /\ chaffSockets' = [chaffSockets EXCEPT ![x].state = "closing"]
  /\ chaffConnections' = [chaffConnections EXCEPT ![chaffSockets[x].url] = 0]
  /\ UNCHANGED <<chaffIntervals, reconnectTimers, notChaff>>

\* ws.on('close')
SocketClose(x) ==
  /\ chaffSockets[x].state \in {"connecting", "open", "closing"}
  /\ chaffSockets' = [chaffSockets EXCEPT ![x].state = "closed"]
  /\ chaffConnections' = [chaffConnections EXCEPT ![chaffSockets[x].url] = 0]
  /\ reconnectTimers' = [reconnectTimers EXCEPT ![chaffSockets[x].url] = @ + 1]
  /\ UNCHANGED <<chaffIntervals, notChaff>>

\* setTimeout(connect, 5000) fires
Reconnect(u) ==
  /\ reconnectTimers[u] > 0
  /\ FreeSockets # {}
  /\ reconnectTimers' = [reconnectTimers EXCEPT ![u] = @ - 1]
  /\ chaffSockets' = connected(chaffSockets, {u})
  /\ UNCHANGED <<chaffConnections, chaffIntervals, notChaff>>

NextChaff ==
  \/ \E urls \in SUBSET ChaffUrls : StartChaff(urls)
  \/ StopChaff
  \/ \E x \in ChaffSocketIds : SocketOpen(x)
  \/ \E x \in ChaffSocketIds : SocketError(x)
  \/ \E x \in ChaffSocketIds : SocketClose(x)
  \/ \E u \in ChaffUrls : Reconnect(u)

SpecChaff == Init /\ [][NextChaff]_vars

(***************************************************************************)
(* The claims.                                                             *)
(***************************************************************************)
\* the registered circuit object of an id, and pairing as the registry shows it
Registered(cs, id) == id \in CircuitIds /\ cs[id] # 0
PairOf(h, cs, id)  == h[cs[id]].rendezvousPairId
PairIds(h, cs) ==
  [id \in CircuitIds |-> IF cs[id] # 0 THEN h[cs[id]].rendezvousPairId ELSE NullId]

\* C2: a DATA message processed for circuit a is passed to sendToCircuit exactly
\* once, for a's rendezvous partner, as a DATA frame with the same payload under
\* the partner's tx key and circuit id; without a registered partner nothing is sent.
\* (ev and out describe the step that led to the state; DATA changes no pair id.)
C2_DataToPartnerOnly ==
  ev.op = "data" =>
    LET a == ev.id
        b == heap[ev.circuit].rendezvousPairId
    IN IF ev.live /\ b # NullId /\ Registered(circuits, b)
       THEN out = {sendToCircuit(heap, circuits[b],
                                 Frame("DATA", Null, Null, ev.data))}
       ELSE out = {}

C4_CookieConsumedOnce ==
  [][/\ (ev'.op = "join" /\ ev'.cookie \in Cookies20)
          => pendingRendezvous'[ev'.cookie] = NoPending
     /\ (ev'.op = "join" /\ ~IsPending(pendingRendezvous, ev'.cookie))
          => (~ev'.success /\ PairIds(heap', circuits') = PairIds(gc, circuits)
              /\ out' = {})
     /\ \A c \in Cookies20 :
          (~IsPending(pendingRendezvous, c) /\ IsPending(pendingRendezvous', c))
            => (ev'.op = "establish" /\ ev'.cookie = c /\ ev'.success)
    ]_vars

\* a second join with a consumed cookie, by a live circuit, while the circuit that
\* had established it is still registered
C4_Witness ==
  /\ ev.op = "join" /\ ~ev.success /\ ev.live /\ ev.cookie = "c1"
  /\ \E id \in CircuitIds : Registered(circuits, id) /\ PairOf(heap, circuits, id) # NullId

\* C5: destroying a circuit a that is paired with b (each holds the other's id)
\* removes both from the registry and zeroes the keys of both objects.
C5_DestroyCascades ==
  [][(ev'.op = "destroy" /\ Registered(circuits, ev'.id)
      /\ PairOf(gc, circuits, ev'.id) # NullId
      /\ Registered(circuits, PairOf(gc, circuits, ev'.id))
      /\ PairOf(gc, circuits, PairOf(gc, circuits, ev'.id)) = ev'.id)
     => LET a == ev'.id
            b == PairOf(gc, circuits, a)
        IN /\ circuits'[a] = 0 /\ circuits'[b] = 0
           /\ \A o \in {circuits[a], circuits[b]} :
                heap'[o].rx = ZeroKey /\ heap'[o].tx = ZeroKey
    ]_vars

\* C6: the step in which the inbound WebSocket of a registered circuit closes
\* removes the circuit from the registry and zeroes its keys.
C6_CloseDestroys ==
  [][(ev'.op = "wsClose" /\ ev'.live)
     => /\ circuits'[ev'.id] = 0
        /\ heap'[ev'.circuit].rx = ZeroKey /\ heap'[ev'.circuit].tx = ZeroKey
    ]_vars

\* C7: a timer or next-hop event that runs for a circuit object the registry no
\* longer holds encrypts and sends nothing and changes neither the pending
\* rendezvous, nor the registry, nor a pair id, nor a next-hop link.
StaleOps == {"data", "establish", "join", "destroy", "relay", "hopOpen", "hopMessage"}

C7_DestroyedHasNoEffect ==
  [][(ev'.op \in StaleOps /\ ~ev'.live)
     => /\ out' = {}
        /\ pendingRendezvous' = pendingRendezvous
        /\ circuits' = circuits
        /\ PairIds(heap', circuits') = PairIds(gc, circuits)
        /\ hops' = hops
        /\ heap'[ev'.circuit].outboundWs = gc[ev'.circuit].outboundWs
    ]_vars

C8_PreviousKeptThenZeroed ==
  \A k \in Keys :
    /\ (retired[k] >= 0 /\ retired[k] < GRACE_MS)
         => (previousKeypair = k /\ k \notin zeroedSk)
    /\ retired[k] > GRACE_MS => k \in zeroedSk

\* C9: a join that presents a cookie established more than 30 s before fails and
\* changes no pair id.
C9_CookieExpires ==
  [][(ev'.op = "join" /\ IsPending(pendingRendezvous, ev'.cookie)
      /\ pendingRendezvous[ev'.cookie].timestamp > COOKIE_TTL_MS)
     => (~ev'.success /\ PairIds(heap', circuits') = PairIds(gc, circuits))
    ]_vars

\* C10: an establish with a cookie that is pending, or not 20 bytes long, or while
\* MAX_PENDING cookies are pending, fails and leaves the pending table as it was;
\* no step changes the circuit recorded for a cookie that stays pending; and the
\* table never holds more than MAX_PENDING entries.
C10_EstablishRejects ==
  [][/\ (ev'.op = "establish"
         /\ (\/ IsPending(pendingRendezvous, ev'.cookie)
             \/ CookieLength(ev'.cookie) # COOKIE_BYTES
             \/ PendingSize(pendingRendezvous) >= MAX_PENDING))
          => (~ev'.success /\ pendingRendezvous' = pendingRendezvous)
     /\ \A c \in Cookies20 :
          (IsPending(pendingRendezvous, c) /\ IsPending(pendingRendezvous', c))
            => pendingRendezvous'[c].circuitId = pendingRendezvous[c].circuitId
     /\ PendingSize(pendingRendezvous') <= MAX_PENDING
    ]_vars

\* a second establish of a pending cookie, by another circuit, was rejected while
\* the table was below its capacity
C10_Witness ==
  /\ ev.op = "establish" /\ ~ev.success /\ ev.live
  /\ IsPending(pendingRendezvous, ev.cookie)
  /\ pendingRendezvous[ev.cookie].circuitId # ev.id
  /\ PendingSize(pendingRendezvous) < MAX_PENDING

\* C11: the registry never holds more than maxCircuits circuits, and a handshake
\* that arrives while it holds maxCircuits registers nothing, changes no circuit
\* object and sends no reply.
C11_RegistryBounded ==
  [][/\ Size(circuits') <= maxCircuits
     /\ (ev'.op = "handshake" /\ Size(circuits) >= maxCircuits)
          => (~ev'.success /\ circuits' = circuits /\ heap' = gc /\ out' = {})
    ]_vars

\* a handshake was turned away at a full registry
C11_Witness ==
  /\ ev.op = "handshake" /\ ~ev.success
  /\ Size(circuits) = maxCircuits /\ circuits[ev.id] = 0

\* C12: a circuit object that stays in the registry forever has packets arriving
\* for it again and again: one for which packets stop arriving is removed.
C12_IdleCircuitSwept ==
  \A o \in Objs :
    <>[]IsLive(o) => []<>(ev.op = "packet" /\ ev.circuit = o)

\* the sweep has just destroyed a circuit whose last activity was older than the TTL
C12_Witness ==
  /\ ev.op = "cleanup"
  /\ \E o \in Objs : /\ heap[o].circuitId # NullId /\ ~IsLive(o)
                      /\ heap[o].lastActivity > sessionTtl
                      /\ heap[o].rx = ZeroKey

\* C13: INTRODUCE for room r succeeds exactly when the circuit that registered
\* r is still in the registry and its socket is open, and then exactly one
\* INTRODUCE_DATA frame with the same cookie and relay URL goes to that
\* circuit's socket; otherwise it fails, delivers nothing and drops the binding.
C13_IntroduceReachesHost ==
  [][ev'.op = "introduce"
     => LET session == circuitSessions[ev'.data]
            exists  == session # NoSession /\ session.ws # NoWs /\ IsLive(session.ws)
            intro   == {x \in out' : x.op = "introData"}
        IN /\ ev'.success <=> (exists /\ WsOpen(gc, session.ws))
           /\ ev'.success
                => /\ Cardinality(intro) = 1
                   /\ \A x \in intro :
                        /\ x.ws = session.ws
                        /\ x.ct.pt.msgType = "INTRODUCE_DATA"
                        /\ x.ct.pt.cookie = ev'.cookie
                        /\ x.ct.pt.nextHop \in HopUrls
           /\ ~ev'.success => (intro = {} /\ circuitSessions'[ev'.data] = NoSession)
    ]_vars

\* C14: paging from cursor 0 with the returned cursors over fixed tables returns
\* every public unexpired room exactly once, and ends after finitely many
\* queries with a page of fewer than count entries.
PublicIds ==
  {rooms[i].roomId : i \in {j \in 1..Len(rooms) :
                              ~rooms[j].isPrivate /\ rooms[j].expiresAt > 0}}
    \cup {federatedRooms[i].roomId : i \in {j \in 1..Len(federatedRooms) :
                                              /\ federatedRooms[j].expiresAt > 0
                                              /\ ~Has(rooms, federatedRooms[j].roomId)}}

C14_Paged ==
  /\ \A i, j \in 1..Len(pages) : i # j => pages[i].roomId # pages[j].roomId
  /\ KeysOf(pages) \subseteq PublicIds
  /\ done => (KeysOf(pages) = PublicIds /\ Len(resp.entries) < count)

C14_PagingCoversOnce == []C14_Paged /\ <>done

C14_Witness ==
  /\ done /\ count = 1 /\ Len(pages) = 2 /\ resp.entries = <<>>
  /\ \E i \in 1..Len(rooms) : rooms[i].isPrivate \/ rooms[i].expiresAt <= 0

\* C15: a QUERY page and the list of GET /api/rooms hold only rooms that are
\* public and not past expiresAt, swept or not: each entry is a public unexpired
\* local room, or an unexpired federated room whose id is no local room; the id
\* of a private or expired local room is in no entry.
Answered == resp.op \in {"query", "list"}

C15_OnlyPublicUnexpired ==
  Answered =>
    /\ \A i \in 1..Len(resp.entries) :
         LET e == resp.entries[i] IN
         \/ \E j \in 1..Len(rooms) :
              /\ rooms[j].roomId = e.roomId /\ ~rooms[j].isPrivate /\ rooms[j].expiresAt > 0
         \/ /\ ~Has(rooms, e.roomId)
            /\ \E j \in 1..Len(federatedRooms) :
                 federatedRooms[j].roomId = e.roomId /\ federatedRooms[j].expiresAt > 0
    /\ \A j \in 1..Len(rooms) :
         (rooms[j].isPrivate \/ rooms[j].expiresAt <= 0)
           => rooms[j].roomId \notin KeysOf(resp.entries)

C15_Witness ==
  /\ resp.op = "list" /\ resp.entries # <<>>
  /\ \E i, j \in 1..Len(rooms) :
       /\ rooms[i].isPrivate /\ rooms[i].expiresAt > 0
       /\ ~rooms[j].isPrivate /\ rooms[j].expiresAt <= 0
  /\ \E j \in 1..Len(federatedRooms) : federatedRooms[j].expiresAt <= 0

\* C16: a QUERY page and the list of GET /api/rooms never hold two entries with
\* one room id, and an entry whose id is a local room is the local record (its
\* metadata and entry relay), not tagged federated.
C16_LocalWins ==
  Answered =>
    /\ \A i, j \in 1..Len(resp.entries) :
         i # j => resp.entries[i].roomId # resp.entries[j].roomId
    /\ \A i \in 1..Len(resp.entries) :
         LET e == resp.entries[i] IN
         Has(rooms, e.roomId)
           => /\ e.metadata = Get(rooms, e.roomId).metadata
              /\ e.entryRelay = Get(rooms, e.roomId).entryRelay
              /\ "federated" \in DOMAIN e => ~e.federated

C16_Witness ==
  /\ resp.op = "list"
  /\ \E i \in 1..Len(resp.entries), j \in 1..Len(federatedRooms) :
       /\ federatedRooms[j].roomId = resp.entries[i].roomId
       /\ federatedRooms[j].expiresAt > 0
       /\ Has(rooms, resp.entries[i].roomId)
       /\ resp.entries[i].metadata = "m1" /\ ~resp.entries[i].federated

\* C17: after setFederatedRooms(S, L) the federated rooms attributed to S are
\* exactly the ids of the entries of L that carry roomId, metadata and
\* entryRelay and are no local room, each with the metadata and entry relay of
\* such an entry and expiring 1.5 x roomTtlMs from now; with L empty no room
\* stays attributed to S.
Carries(pr) ==
  Field(pr, "roomId") # Null /\ Field(pr, "metadata") # Null /\ Field(pr, "entryRelay") # Null

C17_FederatedReplaced ==
  [][ev'.op = "setFederated"
     => LET S == ev'.data
            L == resp'.entries
        IN \A r \in RoomIds :
             LET from == {i \in 1..Len(L) : Carries(L[i]) /\ L[i].roomId = r}
                 ofS  == Has(federatedRooms', r) /\ Get(federatedRooms', r).sourceRelay = S
             IN IF from # {} /\ ~Has(rooms, r)
                THEN /\ ofS
                     /\ Get(federatedRooms', r).expiresAt = FederatedTtl
                     /\ \E i \in from :
                          /\ Get(federatedRooms', r).metadata = L[i].metadata
                          /\ Get(federatedRooms', r).entryRelay = L[i].entryRelay
                ELSE ~ofS
    ]_vars

C17_Witness ==
  /\ ev.op = "setFederated" /\ ev.data = "wss://A"
  /\ resp.entries = <<PeerRoom("r1", "m2"), PeerRoom("r2", "m2")>>
  /\ Has(rooms, "r1") /\ ~Has(federatedRooms, "r1")
  /\ Has(federatedRooms, "r2") /\ Get(federatedRooms, "r2").sourceRelay = "wss://A"

\* C18: when this tracker pulls from a peer, the list handed to
\* setFederatedRooms holds only rooms the peer lists as its own (none tagged
\* federated, each a local room of the peer), and every federated room stored
\* as sourced from the peer is, at the pull, a local room of the peer: a room
\* the peer holds only as a federated shadow is not stored.
C18_OneHop ==
  [][ev'.op = "setFederated"
     => LET source == peers[ev'.data]
        IN /\ \A i \in 1..Len(resp'.entries) :
                /\ ~resp'.entries[i].federated
                /\ Has(source.rooms, resp'.entries[i].id)
           /\ \A j \in 1..Len(federatedRooms') :
                federatedRooms'[j].sourceRelay = ev'.data
                  => Has(source.rooms, federatedRooms'[j].roomId)
    ]_vars

C18_Witness ==
  /\ ev.op = "setFederated" /\ ev.data = "wss://B"
  /\ Has(peers["wss://B"].federated, "r3") /\ ~Has(peers["wss://B"].rooms, "r3")
  /\ Has(peers["wss://A"].rooms, "r1")
  /\ resp.entries # <<>>
  /\ ~Has(federatedRooms, "r3")

\* C19: the local room table never holds more than maxRooms rooms, whatever
\* REGISTER, HEARTBEAT, the sweep and the restore from the database do; a
\* REGISTER of a new id at capacity fails and stores nothing, and a REGISTER of
\* a stored id succeeds.
C19_RoomsBounded ==
  [][/\ Len(rooms') <= maxRooms
     /\ (ev'.op = "register" /\ ~Has(rooms, ev'.data) /\ Len(rooms) >= maxRooms)
          => (~ev'.success /\ rooms' = rooms)
     /\ (ev'.op = "register" /\ Has(rooms, ev'.data)) => ev'.success
    ]_vars

\* C20: a REGISTER of a stored id keeps its createdAt and sets expiresAt to now
\* + roomTtlMs; the number of rooms and the other rooms do not change, and when
\* the REGISTER repeats the stored flag, entry relay and metadata, no other
\* field of the room changes.
C20_ReRegisterRenews ==
  [][(ev'.op = "register" /\ Has(rooms, ev'.data))
     => LET body == resp'.entries[1]
            old  == Get(rooms, ev'.data)
            new  == Get(rooms', ev'.data)
        IN /\ ev'.success
           /\ new.createdAt = old.createdAt
           /\ new.expiresAt = roomTtlMs
           /\ Len(rooms') = Len(rooms)
           /\ \A i \in 1..Len(rooms) : rooms[i].roomId # ev'.data => rooms'[i] = rooms[i]
           /\ (/\ body.isPrivate = old.isPrivate
               /\ body.entryRelay = old.entryRelay
               /\ body.metadata = old.metadata)
                => new = [old EXCEPT !.expiresAt = roomTtlMs]
    ]_vars

C20_Witness ==
  /\ ev.op = "register" /\ ev.success /\ Len(rooms) = 2
  /\ Get(rooms, ev.data).createdAt = 2 /\ Get(rooms, ev.data).expiresAt = roomTtlMs
  /\ resp.entries[1].isPrivate = Get(rooms, ev.data).isPrivate

\* C21: a HEARTBEAT for an id that is no local room fails and changes neither
\* room table; a HEARTBEAT for a stored id succeeds, sets its expiresAt to now +
\* roomTtlMs and changes nothing else.
C21_HeartbeatRenewsOnly ==
  [][ev'.op = "heartbeat"
     => /\ federatedRooms' = federatedRooms
        /\ IF ~Has(rooms, ev'.data)
           THEN ~ev'.success /\ rooms' = rooms
           ELSE /\ ev'.success
                /\ Len(rooms') = Len(rooms)
                /\ \A i \in 1..Len(rooms) :
                     rooms'[i] = IF rooms[i].roomId = ev'.data
                                 THEN [rooms[i] EXCEPT !.expiresAt = roomTtlMs]
                                 ELSE rooms[i]
    ]_vars

C21_Witness ==
  /\ ev.op = "heartbeat" /\ ev.success
  /\ Get(rooms, ev.data).createdAt = 2 /\ Get(rooms, ev.data).expiresAt = roomTtlMs
  /\ Has(federatedRooms, "r3")

\* the hostnames of the model that are loopback (127.0.0.0/8, ::1), private
\* (10/8, 172.16/12, 192.168/16) or link-local (169.254/16) addresses
InternalHosts ==
  {"127.0.0.1", "127.0.0.2", "[::1]", "10.0.0.5", "172.16.0.1", "192.168.1.9",
   "169.254.1.1"}

\* the checks an announcement has to pass, as the specification lists them
PassesEveryCheck(a, now) ==
  /\ {"url", "pk", "signPk", "ts", "sig"} \subseteq DOMAIN a
  /\ Scheme(a.url) \in {"ws", "wss"}
  /\ UrlLength(a.url) <= URL_MAX
  /\ Hostname(a.url) \notin InternalHosts
  /\ a.pk \in Hex64 /\ a.signPk \in Hex64
  /\ a.ts.type = "number"
  /\ a.ts.val >= now - ANNOUNCE_MAX_AGE_MS /\ a.ts.val <= now + ANNOUNCE_MAX_FUTURE_MS
  /\ verify(a.sig, AnnounceMessage(a.url, a.pk, a.ts.val), a.signPk)

\* C22: POST /peers/announce (when not rate limited) changes the peer table only
\* if the announcement passes every check (ws/wss URL of at most 256 characters,
\* host not loopback, private or link-local, 64-hex pk and signPk, numeric
\* timestamp within [now - 10 min, now + 1 min], signature over url|pk|ts valid
\* under signPk); an announcement failing a check is answered 400 and leaves the
\* table unchanged.
C22_AnnounceChecked ==
  [][(gev'.op = "announce" /\ gev'.status # 429) =>
       /\ knownPeers' # knownPeers => PassesEveryCheck(gev'.a, gev'.now)
       /\ ~PassesEveryCheck(gev'.a, gev'.now) =>
            gev'.status = 400 /\ knownPeers' = knownPeers]_vars

\* C23: an announcement that passes verification (answered 200) is merged and
\* sets the announcing peer's lastSeen to the time of receipt, whether the peer
\* was unknown or known, so that the peer counts as recently seen (active).
C23_AnnounceSeen ==
  [][(gev'.op = "announce" /\ gev'.status = 200) =>
       /\ knownPeers'[gev'.a.url] # NoPeer
       /\ knownPeers'[gev'.a.url].lastSeen = gev'.now
       /\ gev'.a.url \in getActivePeers(knownPeers', gev'.now)]_vars

\* C24: every seed peer has failure count 0 in every reachable state; the failure
\* count of a non-seed peer grows only in a failed fetch from, or a failed
\* announcement to, that peer; each successful peer-list fetch from it lowers the
\* count by exactly one, not below 0; and getActivePeers reports exactly the peers
\* with fewer than 3 failures whose lastSeen is less than 24 h old.
C24_FailureCounts ==
  /\ [](\A u \in SEED_NODES : knownPeers[u] # NoPeer /\ knownPeers[u].failures = 0)
  /\ [][/\ \A u \in Urls \ SEED_NODES :
            (knownPeers[u] # NoPeer /\ knownPeers'[u] # NoPeer) =>
              /\ knownPeers'[u].failures > knownPeers[u].failures =>
                   gev'.op \in {"fetchFail", "announceFail"} /\ gev'.peer = u
              /\ (gev'.op = "fetchOk" /\ gev'.peer = u) =>
                   knownPeers'[u].failures =
                     IF knownPeers[u].failures = 0 THEN 0
                     ELSE knownPeers[u].failures - 1
        /\ gev'.op = "getActivePeers" =>
             gev'.active = {u \in Urls : /\ knownPeers[u] # NoPeer
                                         /\ knownPeers[u].failures < 3
                                         /\ gev'.now - knownPeers[u].lastSeen
                                              < ACTIVE_WINDOW_MS}]_vars

\* a successful fetch from a quarantined non-seed peer left it with 2 failures,
\* and the seed was stored with failures in peers.json
C24_Witness ==
  /\ gev.op = "fetchOk" /\ gev.peer = "wss://peer.example"
  /\ knownPeers["wss://peer.example"].failures = MAX_FAILURES - 1
  /\ knownPeers["wss://seed.example"].pk = "kx64"

\* C28: every request handed to proxyHttpRequest eventually has its guest-facing
\* response ended, whatever frames the host sends, repeats or fails to send.
C28_NoRequestPendingForever ==
  \A r \in Res : (responses[r].state = "open") ~> (responses[r].state = "ended")

\* C25: an HTTP request or guest WebSocket upgrade whose cookie resolves to an
\* unexpired session of room key k is handed only to the tunnel registered under
\* k at that moment, and no other host receives a frame; when no host is
\* registered under k the request is answered 502 and the upgrade is refused.
C25_SessionPinsHost ==
  [][(tev'.op \in {"http", "upgrade"} /\ tev'.session # Null) =>
       LET host == hostTunnels[tev'.session] IN
       /\ tev'.proxied \in {0, host} /\ tev'.to \in {0, host}
       /\ \A c \in Conns \ {host} : tunnels'[c] = tunnels[c]
       /\ (tev'.op = "http" /\ tev'.path # "/index.html") =>
            IF host = 0 THEN responses'[tev'.res].status = 502
            ELSE tev'.proxied = host /\ responses'[tev'.res].tunnel = host
       /\ tev'.op = "upgrade" =>
            IF host = 0 THEN guests'[tev'.guest] = "refused" ELSE tev'.proxied = host]_vars

\* a request with a session of room aaaa was handed to the host of aaaa while
\* another host was registered under bbbb
C25_Witness ==
  /\ tev.op = "http" /\ tev.session = "aaaa" /\ tev.hosts = 2
  /\ tev.proxied # 0 /\ tev.proxied = hostTunnels["aaaa"]
  /\ responses[tev.res].state = "open"

\* C26: when socket ws2 registers under room key k while ws1 is registered under
\* k, the registry maps k to ws2, ws1 is closed and no other key changes; the
\* later close event of the superseded ws1 changes neither the registry nor the
\* tunnel of any other socket.
C26_ReplacedHost ==
  [][/\ (tev'.op = "register" /\ tev'.was \notin {0, tev'.ws}) =>
          /\ hostTunnels'[tev'.key] = tev'.ws
          /\ tunnels'[tev'.ws].ws = "open"
          /\ tunnels'[tev'.was].ws \in {"closing", "closed"}
          /\ \A k \in RoomKeys \ {tev'.key} : hostTunnels'[k] = hostTunnels[k]
     /\ (/\ tev'.op = "hostClose"
         /\ tunnels[tev'.ws].roomKey # Null
         /\ hostTunnels[tunnels[tev'.ws].roomKey] \notin {0, tev'.ws}) =>
          /\ hostTunnels' = hostTunnels
          /\ \A c \in Conns \ {tev'.ws} : tunnels'[c] = tunnels[c]]_vars

\* socket 1 was replaced by socket 2 under aaaa and its close event has fired
C26_Witness ==
  /\ tev.op = "hostClose" /\ tev.ws = 1
  /\ tunnels[1].roomKey = "aaaa" /\ tunnels[1].ws = "closed"
  /\ hostTunnels["aaaa"] = 2 /\ tunnels[2].ws = "open"

\* C27: when the control connection of a host closes, every request pending on
\* its tunnel is completed in that step, with 502 unless its head was written,
\* and every guest channel of the tunnel is closed; also for a connection that a
\* newer registration under the same key has superseded.
C27_CloseFailsPending ==
  [][(tev'.op = "hostClose" /\ tunnels[tev'.ws].roomKey # Null) =>
       /\ \A r \in PendingOf(tunnels, tev'.ws) :
            responses[r].state = "open" =>
              /\ responses'[r].state = "ended"
              /\ ~responses[r].headersSent => responses'[r].status = 502
       /\ \A g \in ChannelsOf(tunnels, tev'.ws) : guests'[g] = "closed"]_vars

AllowedIn(origin, t) ==
  {i \in DOMAIN allowed[origin] :
     allowed[origin][i] > t - windowMs /\ allowed[origin][i] <= t}

\* C30: for every origin and every instant t, at most maxRequests calls of
\* check(origin) with call time in (t - windowMs, t] returned true, whatever the
\* requests of other origins and the runs of the cleanup in between.
C30_WindowBounded ==
  \A origin \in Origins : \A t \in LimiterEpoch..(MaxClock + windowMs) :
    Cardinality(AllowedIn(origin, t)) <= maxRequests

\* an origin was allowed maxRequests calls in each of two windows and is blocked
\* after one more, while another origin is tracked
C30_Witness ==
  /\ Len(allowed["ip1"]) = 2 * maxRequests
  /\ Blocked(buckets["ip1"], lnow)
  /\ Len(buckets["ip1"].timestamps) = maxRequests
  /\ buckets["ip2"].tracked

\* C31: while fewer than MAX_TRACKED_IPS origins are tracked, a call of
\* check(origin) made at least one full window after that origin's most recent
\* call, admitted or rejected, returns true.
C31_AdmittedAfterWindow ==
  [][(/\ lev'.op = "check"
      /\ lev' # lev \/ called' # called
      /\ Cardinality(Tracked(buckets)) < MAX_TRACKED_IPS
      /\ called[lev'.ip] # 0
      /\ lnow - called[lev'.ip] >= windowMs) =>
       lev'.result]_vars

\* an origin that was rejected, its block still recorded, was admitted one window
\* after its last call
C31_Witness ==
  /\ lev.op = "check" /\ lev.result /\ lev.waited /\ lev.wasBlocked
  /\ Len(allowed[lev.ip]) = maxRequests + 1

\* C32: for each peer URL at most one chaff connection is open or being opened
\* at any time.
C32_OneChaffConnection ==
  \A u \in ChaffUrls :
    Cardinality({x \in ChaffSocketIds :
                   chaffSockets[x].url = u /\
                   chaffSockets[x].state \in {"connecting", "open"}}) <= 1


\* C33: a packet for a circuit of the registry whose AEAD decryption fails sends
\* nothing, schedules no processMessage and opens no next hop, and leaves the
\* registry, every field of every circuit (keys, pair id, outbound link and
\* lastActivity), the pending rendezvous and the room tables as they were.
C33_FailedDecryptChangesNothing ==
  [][(ev'.op = "packet" /\ ~ev'.success)
     => /\ out' = {}
        /\ timers' = timers
        /\ hops' = hops
        /\ circuits' = circuits
        /\ \A i \in CircuitIds :
             circuits[i] # 0 => heap'[circuits[i]] = gc[circuits[i]]
        /\ pendingRendezvous' = pendingRendezvous
        /\ rooms' = rooms /\ federatedRooms' = federatedRooms
    ]_vars


\* C34: when the load of the persisted rooms completes, every local and every
\* federated record the tracker holds in memory stays as it is (the restore only
\* adds records), and every federated record it adds has an id that no local
\* room has, the restored local rooms included.
C34_RestoreOnlyAdds ==
  [][ev'.op = "restore"
     => /\ Len(rooms') >= Len(rooms)
        /\ \A i \in 1..Len(rooms) : rooms'[i] = rooms[i]
        /\ Len(federatedRooms') >= Len(federatedRooms)
        /\ \A i \in 1..Len(federatedRooms) : federatedRooms'[i] = federatedRooms[i]
        /\ \A r \in KeysOf(federatedRooms') \ KeysOf(federatedRooms) :
             ~Has(rooms, r) /\ ~Has(rooms', r)
    ]_vars

\* the database held r1 and r2 as local rooms and r2 and r3 as federated ones while
\* r1 was registered and r3 federated in memory: r2 is restored as a local room
\* only, r1 and r3 keep the records of the memory
C34_Witness ==
  /\ ev.op = "restore"
  /\ KeysOf(SelectSeq(resp.entries, LAMBDA e : "isPrivate" \in DOMAIN e)) = {"r1", "r2"}
  /\ KeysOf(SelectSeq(resp.entries, LAMBDA e : "sourceRelay" \in DOMAIN e)) = {"r2", "r3"}
  /\ Get(rooms, "r1").metadata = "m1" /\ Get(rooms, "r2").metadata = "m2"
  /\ KeysOf(federatedRooms) = {"r3"} /\ Get(federatedRooms, "r3").metadata = "m1"


\* C35: rendezvous pairing is symmetric in every reachable state: a registered
\* circuit a whose pair id is b has b in the registry, and b's pair id is a.
C35_PairingSymmetric ==
  \A a \in CircuitIds :
    (Registered(circuits, a) /\ PairOf(heap, circuits, a) # NullId)
      => LET b == PairOf(heap, circuits, a)
         IN Registered(circuits, b) /\ PairOf(heap, circuits, b) = a


\* C36: the messages of one circuit are dispatched in the order their packets
\* arrived: the timer that fires is not preceded by a pending timer of the same
\* circuit (timers holds the pending ones in arrival order).
C36_DispatchedInArrivalOrder ==
  [][Len(timers') < Len(timers)
     => \E i \in 1..Len(timers) :
          /\ timers' = Remove(timers, i)
          /\ \A j \in 1..(i - 1) : timers[j].circuit # timers[i].circuit
    ]_vars


\* C37: the relay never discards as chaff a well-formed handshake (a packet for a
\* circuit id the registry does not hold) or an authentic packet of an
\* established circuit, whatever the first byte of its random nonce is.
C37_NeverDiscardedAsChaff ==
  [][~(ev'.op = "chaff" /\ ev'.authentic)]_vars


\* C38: while room r is unexpired and the circuit it was registered over is in the
\* registry with an open socket, a REGISTER for r from another circuit or over
\* POST /api/register (no circuit) leaves r's metadata and entry relay as they
\* were and leaves the circuit INTRODUCE is routed to as it was.
C38_RegistrationNotHijacked ==
  [][(/\ ev'.op = "register"
      /\ Has(rooms, ev'.data) /\ Get(rooms, ev'.data).expiresAt > 0
      /\ circuitSessions[ev'.data] # NoSession
      /\ WsOpen(gc, circuitSessions[ev'.data].ws)
      /\ IsLive(circuitSessions[ev'.data].ws)
      /\ ev'.circuit # circuitSessions[ev'.data].ws)
     => /\ Get(rooms', ev'.data).metadata = Get(rooms, ev'.data).metadata
        /\ Get(rooms', ev'.data).entryRelay = Get(rooms, ev'.data).entryRelay
        /\ circuitSessions'[ev'.data] = circuitSessions[ev'.data]
    ]_vars


\* C39: the keys (pk, signPk) recorded for a known peer URL change only in a step
\* that handles an announcement for that URL signed with the signing key already
\* recorded for it, and the keys of the node's own entry never change.
C39_KeysChangeOnlyByOwner ==
  [][\A u \in Urls :
       (/\ knownPeers[u] # NoPeer /\ knownPeers'[u] # NoPeer
        /\ (knownPeers'[u].pk # knownPeers[u].pk
             \/ knownPeers'[u].signPk # knownPeers[u].signPk))
       => /\ u # myUrl
          /\ gev'.op = "announce" /\ gev'.a.url = u
          /\ "sig" \in DOMAIN gev'.a
          /\ verify(gev'.a.sig, AnnounceMessage(u, gev'.a.pk, gev'.a.ts.val),
                    knownPeers[u].signPk)
    ]_vars


\* C40: setFederatedRooms(S, L) leaves every federated entry whose source is a
\* relay other than S in the table and unchanged, and leaves the local room table
\* as it was.
C40_OtherSourcesKept ==
  [][ev'.op = "setFederated"
     => /\ rooms' = rooms
        /\ \A i \in 1..Len(federatedRooms) :
             federatedRooms[i].sourceRelay # ev'.data
               => /\ Has(federatedRooms', federatedRooms[i].roomId)
                  /\ Get(federatedRooms', federatedRooms[i].roomId) = federatedRooms[i]
    ]_vars

====
